---- MODULE Spec2Model ----
(***************************************************************************)
(* Model of the Go rules engine of src/game/core.py: the board (Goban)     *)
(* with its history of snapshots, and the game state (GoGame) with its     *)
(* turn, pass and move-count bookkeeping.                                  *)
(***************************************************************************)
EXTENDS Integers, Sequences, FiniteSets, TLC

VARIABLES size, board, states, current_color, black_passed, white_passed,
          nbr_moves, singleplayer, ret, turns, scope, out, frame

vars == <<size, board, states, current_color, black_passed, white_passed,
          nbr_moves, singleplayer, ret, turns, scope, out, frame>>

(* Goban.EMPTY / BLACK / WHITE *)
EMPTY == 0
BLACK == 1
WHITE == 2

(* The bound of the model: the number of turns explored on a board whose   *)
(* every cell is tried.  Runs that try fewer coordinates are followed for  *)
(* more turns (Configs... below).                                          *)
MaxMoves == 3

Colors == {BLACK, WHITE}

(* The cells of a size n board, as <<row, column>>. *)
Pos(n) == (0 .. n - 1) \X (0 .. n - 1)

(* Two off-board coordinates, one below and one beyond the range. *)
OffBoard(n) == {<<-1, 0>>, <<n - 1, n>>}

(* The coordinates callers try when every cell is tried. *)
AllCoords(n) == Pos(n) \cup OffBoard(n)

(* The cells of the capture scenario of test_take_move_captures_opponent_chain. *)
CaptureCells == {<<2, 2>>, <<1, 2>>, <<3, 2>>, <<2, 1>>, <<2, 3>>}

(* The cells of the suicide scenario of test_possible_move_suicide_move. *)
SuicideCells == {<<0, 1>>, <<1, 0>>, <<1, 2>>, <<0, 0>>}

(* The cells of a single-stone ko in the corner of a 3x3 board. *)
KoCells == {<<1, 0>>, <<0, 2>>, <<1, 1>>, <<0, 0>>, <<0, 1>>}

(* What a run explores: the board size, the coordinates callers try, the   *)
(* number of turns a game may count and of snapshots the history may hold. *)
ConfigsGame ==
    { [size |-> 2, tried |-> AllCoords(2), turns |-> MaxMoves + 3,
       hist |-> MaxMoves + 4],
      [size |-> 3, tried |-> AllCoords(3), turns |-> MaxMoves,
       hist |-> MaxMoves + 1],
      [size |-> 3, tried |-> KoCells, turns |-> MaxMoves + 2,
       hist |-> MaxMoves + 3] }

ConfigsBoard ==
    { [size |-> 2, tried |-> AllCoords(2), turns |-> MaxMoves - 1,
       hist |-> MaxMoves + 1],
      [size |-> 3, tried |-> SuicideCells, turns |-> MaxMoves - 2,
       hist |-> MaxMoves + 1],
      [size |-> 5, tried |-> CaptureCells, turns |-> 0,
       hist |-> MaxMoves + 3] }

(* np.zeros((size, size)) *)
EmptyBoard(n) == [p \in Pos(n) |-> EMPTY]

(* Goban._on_board *)
OnBoard(n, x, y) == 0 <= x /\ x < n /\ 0 <= y /\ y < n

(* Goban._neighbours: the on-board orthogonal neighbours, in the order the *)
(* generator yields them.                                                  *)
Neighbours(n, p) ==
    LET all == << <<p[1] + 1, p[2]>>, <<p[1] - 1, p[2]>>,
                  <<p[1], p[2] + 1>>, <<p[1], p[2] - 1>> >>
        on(q) == OnBoard(n, q[1], q[2])
    IN SelectSeq(all, on)

(* Goban.opponent *)
opponent(color) == IF color = WHITE THEN BLACK ELSE WHITE

(* The values of a sequence. *)
Range(s) == {s[i] : i \in 1 .. Len(s)}

(* The while loop of Goban._chain_and_liberties: a BFS over a queue. *)
RECURSIVE ChainBFS(_, _, _, _, _, _)
ChainBFS(n, b, color, queue, visited, liberties) ==
    IF queue = <<>>
    THEN [raised |-> FALSE, chain |-> visited, liberties |-> liberties]
    ELSE LET c == Head(queue)
             skip == c \in visited
             nbs == Neighbours(n, c)
             seen == visited \cup {c}
             same(q) == b[q] = color /\ q \notin seen
         IN ChainBFS(n, b, color,
                     IF skip THEN Tail(queue)
                     ELSE Tail(queue) \o SelectSeq(nbs, same),
                     IF skip THEN visited ELSE seen,
                     IF skip THEN liberties
                     ELSE liberties \cup {q \in Range(nbs) : b[q] = EMPTY})

(* Goban._chain_and_liberties: the assertion fails on an empty cell. *)
chain_and_liberties(n, b, p) ==
    IF b[p] = EMPTY
    THEN [raised |-> TRUE, chain |-> {}, liberties |-> {}]
    ELSE ChainBFS(n, b, b[p], <<p>>, {}, {})

(* self.board[x, y] = color: grid b with colour color on cell p. *)
Place(b, p, color) == [q \in DOMAIN b |-> IF q = p THEN color ELSE b[q]]

(* Goban._remove_chain *)
remove_chain(b, chain) == [p \in DOMAIN b |-> IF p \in chain THEN EMPTY ELSE b[p]]

(* Mutant of SimStep: the chain of the neighbour is looked up before its   *)
(* colour is tested.                                                       *)
SimStep_looks_up_first(st, opp, q, cl) ==
    IF cl.raised THEN [st EXCEPT !.raised = TRUE]
    ELSE IF st.board[q] = opp /\ cl.liberties = {}
    THEN [st EXCEPT !.board = remove_chain(st.board, cl.chain),
                    !.captured_any = TRUE]
    ELSE st

(* One round of the capture loop of Goban.possible_move (lines 175-179)    *)
(* for the neighbour q: st is the grid so far with the captured_any flag,  *)
(* cl the chain and liberties of q on that grid (looked up only when q     *)
(* holds an opponent stone).                                               *)
SimStep(st, opp, q, cl) ==
    IF st.board[q] # opp THEN st
    ELSE IF cl.raised THEN [st EXCEPT !.raised = TRUE]
    ELSE IF cl.liberties = {}
    THEN [st EXCEPT !.board = remove_chain(st.board, cl.chain),
                    !.captured_any = TRUE]
    ELSE st

(* The capture loop of Goban.possible_move over the neighbours nbs of the  *)
(* placed stone (lines 174-179).                                           *)
RECURSIVE SimCaptures(_, _, _, _)
SimCaptures(n, opp, nbs, st) ==
    IF nbs = <<>> \/ st.raised
    THEN st
    ELSE SimCaptures(n, opp, Tail(nbs),
                     SimStep(st, opp, Head(nbs),
                             chain_and_liberties(n, st.board, Head(nbs))))

(* Mutant of suicide_check: the liberties of the placed stone are ignored. *)
suicide_check_off(liberties, captured_any) == TRUE

(* The suicide test of Goban.possible_move (line 183). *)
suicide_check(liberties, captured_any) == liberties # {} \/ captured_any

(* Mutant of ko_check: the simulated grid is compared with the last        *)
(* snapshot.                                                               *)
ko_check_last(b, hist) == Len(hist) >= 2 /\ b = hist[Len(hist)]

(* Mutant of ko_check: the simulated grid is compared with no snapshot. *)
ko_check_off(b, hist) == FALSE

(* Mutant of ko_check: the simulated grid is compared with every snapshot  *)
(* of the history.                                                         *)
ko_check_any(b, hist) == \E i \in 1 .. Len(hist) : b = hist[i]

(* The simple-ko test of Goban.possible_move (lines 186-188): TRUE when    *)
(* the simulated grid equals the snapshot before the last one.             *)
ko_check(b, hist) == Len(hist) >= 2 /\ b = hist[Len(hist) - 1]

(* Lines 181-188 of Goban.possible_move: the verdict on the simulation,    *)
(* given the result cap of the capture loop on snapshot b and the chain    *)
(* and liberties own of the placed stone.                                  *)
Verdict(b, hist, cap, own) ==
    IF cap.raised \/ own.raised
    THEN [legal |-> FALSE, board |-> cap.board, snapshot |-> b,
          captured_any |-> cap.captured_any, why |-> "raised", raised |-> TRUE]
    ELSE IF ~suicide_check(own.liberties, cap.captured_any)
    THEN [legal |-> FALSE, board |-> cap.board, snapshot |-> b,
          captured_any |-> cap.captured_any, why |-> "suicide",
          raised |-> FALSE]
    ELSE IF ko_check(cap.board, hist)
    THEN [legal |-> FALSE, board |-> cap.board, snapshot |-> b,
          captured_any |-> cap.captured_any, why |-> "ko", raised |-> FALSE]
    ELSE [legal |-> TRUE, board |-> cap.board, snapshot |-> b,
          captured_any |-> cap.captured_any, why |-> "legal", raised |-> FALSE]

(* Lines 181-182 of Goban.possible_move: the placed stone's own chain. *)
AfterCaptures(n, b, hist, x, y, cap) ==
    Verdict(b, hist, cap, chain_and_liberties(n, cap.board, <<x, y>>))

(* Goban.possible_move up to, and without, the restore of its last lines.  *)
(* The result carries the legality computed, the grid the object holds at  *)
(* that point, the snapshot saved, whether the simulation captured, the    *)
(* branch that decided, and whether an assertion failed on the way.        *)
SimulateMove(n, b, hist, x, y, color) ==
    IF ~OnBoard(n, x, y)
    THEN [legal |-> FALSE, board |-> b, snapshot |-> b, captured_any |-> FALSE,
          why |-> "off_board", raised |-> FALSE]
    ELSE IF b[<<x, y>>] # EMPTY
    THEN [legal |-> FALSE, board |-> b, snapshot |-> b, captured_any |-> FALSE,
          why |-> "occupied", raised |-> FALSE]
    ELSE AfterCaptures(n, b, hist, x, y,
                       SimCaptures(n, opponent(color), Neighbours(n, <<x, y>>),
                                   [board |-> Place(b, <<x, y>>, color),
                                    captured_any |-> FALSE, raised |-> FALSE]))

(* Lines 190-191 of Goban.possible_move: the grid becomes the snapshot     *)
(* again (a failed assertion leaves before them).                          *)
Restore(s) == IF s.raised THEN s ELSE [s EXCEPT !.board = s.snapshot]

(* Mutant of possible_move: the restore of lines 190-191 is left out. *)
possible_move_no_restore(n, b, hist, x, y, color) ==
    SimulateMove(n, b, hist, x, y, color)

(* Goban.possible_move: the simulation, then the restore. *)
possible_move(n, b, hist, x, y, color) ==
    Restore(SimulateMove(n, b, hist, x, y, color))

(* Mutant of PlayStep: a dead chain of either colour is removed. *)
PlayStep_either_colour(st, opp, q, cl) ==
    IF st.board[q] = EMPTY THEN st
    ELSE IF cl.raised THEN [st EXCEPT !.raised = TRUE]
    ELSE IF cl.liberties = {}
    THEN [st EXCEPT !.board = remove_chain(st.board, cl.chain),
                    !.capture = TRUE]
    ELSE st

(* Mutant of PlayStep: the flag is set and the dead chain left in place. *)
PlayStep_keeps_chain(st, opp, q, cl) ==
    IF st.board[q] # opp THEN st
    ELSE IF cl.raised THEN [st EXCEPT !.raised = TRUE]
    ELSE IF cl.liberties = {}
    THEN [st EXCEPT !.capture = TRUE]
    ELSE st

(* Mutant of PlayStep: a dead chain is removed without setting the flag. *)
PlayStep_no_flag(st, opp, q, cl) ==
    IF st.board[q] # opp THEN st
    ELSE IF cl.raised THEN [st EXCEPT !.raised = TRUE]
    ELSE IF cl.liberties = {}
    THEN [st EXCEPT !.board = remove_chain(st.board, cl.chain)]
    ELSE st

(* One round of the capture loop of Goban.play_move (lines 219-223). *)
PlayStep(st, opp, q, cl) ==
    IF st.board[q] # opp THEN st
    ELSE IF cl.raised THEN [st EXCEPT !.raised = TRUE]
    ELSE IF cl.liberties = {}
    THEN [st EXCEPT !.board = remove_chain(st.board, cl.chain),
                    !.capture = TRUE]
    ELSE st

(* The capture loop of Goban.play_move (lines 218-223). *)
RECURSIVE PlayCaptures(_, _, _, _)
PlayCaptures(n, opp, nbs, st) ==
    IF nbs = <<>> \/ st.raised
    THEN st
    ELSE PlayCaptures(n, opp, Tail(nbs),
                      PlayStep(st, opp, Head(nbs),
                               chain_and_liberties(n, st.board, Head(nbs))))

(* Mutant of Played: the new grid is not appended to the history. *)
Played_no_append(hist, cap) ==
    IF cap.raised
    THEN [ok |-> FALSE, capture |-> FALSE, board |-> cap.board,
          states |-> hist, why |-> "raised", raised |-> TRUE]
    ELSE [ok |-> TRUE, capture |-> cap.capture, board |-> cap.board,
          states |-> hist, why |-> "legal", raised |-> FALSE]

(* Lines 225-227 of Goban.play_move: the grid is appended to the history   *)
(* and (True, capture) returned; cap is the result of the capture loop.    *)
Played(hist, cap) ==
    IF cap.raised
    THEN [ok |-> FALSE, capture |-> FALSE, board |-> cap.board,
          states |-> hist, why |-> "raised", raised |-> TRUE]
    ELSE [ok |-> TRUE, capture |-> cap.capture, board |-> cap.board,
          states |-> Append(hist, cap.board), why |-> "legal",
          raised |-> FALSE]

(* Lines 210-223 of Goban.play_move, given the result pm of the call of    *)
(* possible_move.                                                          *)
PlayChecked(n, hist, x, y, color, pm) ==
    IF pm.raised \/ ~pm.legal
    THEN [ok |-> FALSE, capture |-> FALSE, board |-> pm.board,
          states |-> hist, why |-> pm.why, raised |-> pm.raised]
    ELSE Played(hist,
                PlayCaptures(n, opponent(color), Neighbours(n, <<x, y>>),
                             [board |-> Place(pm.board, <<x, y>>, color),
                              capture |-> FALSE, raised |-> FALSE]))

(* Goban.play_move: the grid and the history after the call, and the pair  *)
(* returned.                                                               *)
play_move(n, b, hist, x, y, color) ==
    PlayChecked(n, hist, x, y, color, possible_move(n, b, hist, x, y, color))

(* Mutant of switch_player: the second branch returns the wrong colour. *)
switch_player_stuck(color) == IF color = BLACK THEN WHITE ELSE WHITE

(* GoGame.switch_player *)
switch_player(color) == IF color = BLACK THEN WHITE ELSE BLACK

(* Mutant of TakeChecked: a rejected move is counted as a move. *)
TakeChecked_counts_rejected(g, r) ==
    IF r.ok
    THEN [game |-> [g EXCEPT !.board = r.board,
                             !.states = r.states,
                             !.nbr_moves = g.nbr_moves + 1,
                             !.black_passed = FALSE,
                             !.white_passed = FALSE,
                             !.current_color = switch_player(g.current_color)],
          ok |-> TRUE, capture |-> r.capture, why |-> r.why, raised |-> FALSE]
    ELSE [game |-> [g EXCEPT !.board = r.board, !.states = r.states,
                             !.nbr_moves = g.nbr_moves + 1],
          ok |-> FALSE, capture |-> FALSE, why |-> r.why, raised |-> r.raised]

(* Mutant of TakeChecked: the pass flags are not cleared. *)
TakeChecked_keeps_flags(g, r) ==
    IF r.ok
    THEN [game |-> [g EXCEPT !.board = r.board,
                             !.states = r.states,
                             !.nbr_moves = g.nbr_moves + 1,
                             !.current_color = switch_player(g.current_color)],
          ok |-> TRUE, capture |-> r.capture, why |-> r.why, raised |-> FALSE]
    ELSE [game |-> [g EXCEPT !.board = r.board, !.states = r.states],
          ok |-> FALSE, capture |-> FALSE, why |-> r.why, raised |-> r.raised]

(* Lines 408-414 of GoGame.take_move, given the result r of play_move on   *)
(* the game g (a record of its fields).                                    *)
TakeChecked(g, r) ==
    IF r.ok
    THEN [game |-> [g EXCEPT !.board = r.board,
                             !.states = r.states,
                             !.nbr_moves = g.nbr_moves + 1,
                             !.black_passed = FALSE,
                             !.white_passed = FALSE,
                             !.current_color = switch_player(g.current_color)],
          ok |-> TRUE, capture |-> r.capture, why |-> r.why, raised |-> FALSE]
    ELSE [game |-> [g EXCEPT !.board = r.board, !.states = r.states],
          ok |-> FALSE, capture |-> FALSE, why |-> r.why, raised |-> r.raised]

(* GoGame.take_move: the game after the call and the pair returned. *)
take_move(g, x, y) ==
    TakeChecked(g, play_move(g.size, g.board, g.states, x, y, g.current_color))

(* Mutant of pass_move: passing clears the other colour's flag. *)
pass_move_clears_other(g) ==
    [g EXCEPT !.black_passed = g.current_color = BLACK,
              !.white_passed = g.current_color # BLACK,
              !.nbr_moves = g.nbr_moves + 1,
              !.current_color = switch_player(g.current_color)]

(* Mutant of pass_move: a pass is not counted as a move. *)
pass_move_no_count(g) ==
    [g EXCEPT !.black_passed = IF g.current_color = BLACK THEN TRUE ELSE @,
              !.white_passed = IF g.current_color = BLACK THEN @ ELSE TRUE,
              !.current_color = switch_player(g.current_color)]

(* GoGame.pass_move *)
pass_move(g) ==
    [g EXCEPT !.black_passed = IF g.current_color = BLACK THEN TRUE ELSE @,
              !.white_passed = IF g.current_color = BLACK THEN @ ELSE TRUE,
              !.nbr_moves = g.nbr_moves + 1,
              !.current_color = switch_player(g.current_color)]

(* Mutant of game_over: one pass is enough. *)
game_over_either == black_passed \/ white_passed

(* GoGame.game_over *)
game_over == black_passed /\ white_passed

(* The live game as a record of its fields. *)
Game ==
    [size |-> size, board |-> board, states |-> states,
     current_color |-> current_color, black_passed |-> black_passed,
     white_passed |-> white_passed, nbr_moves |-> nbr_moves,
     singleplayer |-> singleplayer]

(* The fields of the live game become those of g. *)
Becomes(g) ==
    /\ size' = g.size
    /\ board' = g.board
    /\ states' = g.states
    /\ current_color' = g.current_color
    /\ black_passed' = g.black_passed
    /\ white_passed' = g.white_passed
    /\ nbr_moves' = g.nbr_moves
    /\ singleplayer' = g.singleplayer

(* The value of out when the last call was no query: out holds what a      *)
(* query (a score, a winner, a copy, a chosen move) returned, until the    *)
(* next call.                                                              *)
NoValue == [kind |-> "none"]

(* The value of frame when the game is driven by calls and no window      *)
(* shows it.                                                               *)
NoFrame == [pc |-> "none"]

(* The kinds of the last three accepted turns, oldest first (a record kept *)
(* beside the program, which the program does not read).                   *)
Last3(s) == IF Len(s) <= 3 THEN s ELSE SubSeq(s, Len(s) - 2, Len(s))

(* Goban.__init__ and GoGame.__init__ *)
InitWith(configs) ==
    /\ scope \in configs
    /\ frame = NoFrame
    /\ size = scope.size
    /\ board = EmptyBoard(size)
    /\ states = <<EmptyBoard(size)>>
    /\ current_color = BLACK
    /\ black_passed = FALSE
    /\ white_passed = FALSE
    /\ nbr_moves = 0
    /\ singleplayer = FALSE
    /\ ret = [op |-> "init", ok |-> FALSE, capture |-> FALSE, why |-> "none",
              raised |-> FALSE]
    /\ turns = <<>>
    /\ out = NoValue

(* The result of a call, as kept in ret. *)
Ret(op, ok, capture, why, raised) ==
    [op |-> op, ok |-> ok, capture |-> capture, why |-> why, raised |-> raised]

(* The effect of a call of Goban.possible_move whose result is pm. *)
PossibleMoveDone(pm) ==
    /\ board' = pm.board
    /\ ret' = Ret("possible_move", pm.legal, pm.captured_any, pm.why, pm.raised)
    /\ out' = NoValue
    /\ UNCHANGED <<size, states, current_color, black_passed, white_passed,
                   nbr_moves, singleplayer, turns, scope, frame>>

(* A call of Goban.possible_move on the game's board; ret.capture records  *)
(* whether the simulation captured.                                        *)
PossibleMove(x, y, color) ==
    PossibleMoveDone(possible_move(size, board, states, x, y, color))

(* The effect of a call of Goban.play_move whose result is r, followed     *)
(* while the history stays within the bound.                               *)
PlayMoveDone(r) ==
    /\ Len(r.states) <= scope.hist
    /\ board' = r.board
    /\ states' = r.states
    /\ ret' = Ret("play_move", r.ok, r.capture, r.why, r.raised)
    /\ out' = NoValue
    /\ UNCHANGED <<size, current_color, black_passed, white_passed,
                   nbr_moves, singleplayer, turns, scope, frame>>

(* A call of Goban.play_move on the game's board, with either colour. *)
PlayMove(x, y, color) ==
    PlayMoveDone(play_move(size, board, states, x, y, color))

(* The effect of a call of GoGame.take_move whose result is r, followed    *)
(* while the history and the move count stay within the bounds.            *)
TakeMoveDone(r) ==
    /\ Len(r.game.states) <= scope.hist
    /\ r.game.nbr_moves <= scope.turns
    /\ Becomes(r.game)
    /\ ret' = Ret("take_move", r.ok, r.capture, r.why, r.raised)
    /\ turns' = IF r.ok THEN Last3(Append(turns, "stone")) ELSE turns
    /\ out' = NoValue
    /\ UNCHANGED <<scope, frame>>

(* A call of GoGame.take_move. *)
TakeMove(x, y) ==
    TakeMoveDone(take_move(Game, x, y))

(* A call of GoGame.pass_move, followed while the move count stays within  *)
(* the bound.                                                              *)
PassMove ==
    /\ nbr_moves < scope.turns
    /\ Becomes(pass_move(Game))
    /\ ret' = Ret("pass_move", TRUE, FALSE, "none", FALSE)
    /\ turns' = Last3(Append(turns, "pass"))
    /\ out' = NoValue
    /\ UNCHANGED <<scope, frame>>

(* The calls made on a game: moves, passes and legality queries. *)
Next ==
    \/ \E c \in scope.tried : TakeMove(c[1], c[2])
    \/ PassMove
    \/ \E c \in scope.tried, color \in Colors : PossibleMove(c[1], c[2], color)

Init == InitWith(ConfigsGame)

Spec == Init /\ [][Next]_vars

(* The same, and Goban.play_move called on the board directly. *)
NextBoard ==
    \/ \E c \in scope.tried : TakeMove(c[1], c[2])
    \/ PassMove
    \/ \E c \in scope.tried, color \in Colors : PossibleMove(c[1], c[2], color)
    \/ \E c \in scope.tried, color \in Colors : PlayMove(c[1], c[2], color)

InitBoard == InitWith(ConfigsBoard)

SpecBoard == InitBoard /\ [][NextBoard]_vars

(* GoGame.__init__ and Goban.__init__ as a record of the new game's fields. *)
NewGame(n) ==
    [size |-> n, board |-> EmptyBoard(n), states |-> <<EmptyBoard(n)>>,
     current_color |-> BLACK, black_passed |-> FALSE, white_passed |-> FALSE,
     nbr_moves |-> 0, singleplayer |-> FALSE]

(* The game after take_move was called with each coordinate of moves. *)
RECURSIVE Replay(_, _)
Replay(g, moves) ==
    IF moves = <<>> THEN g
    ELSE Replay(take_move(g, Head(moves)[1], Head(moves)[2]).game, Tail(moves))

(* The four stones that prepare the corner ko on a 3x3 board: Black (0,2), *)
(* White (0,1), Black (1,1), White (1,0).  Black at (0,0) then captures    *)
(* (0,1), and White at (0,1) would capture (0,0) back.                     *)
KoSetup == << <<0, 2>>, <<0, 1>>, <<1, 1>>, <<1, 0>> >>

(* The runs of the ko position: the cells of the ko and one cell elsewhere. *)
ConfigsKo ==
    { [size |-> 3, tried |-> KoCells \cup {<<2, 2>>}, turns |-> MaxMoves + 5,
       hist |-> MaxMoves + 5] }

(* The live game starts with the fields of g. *)
Starts(g) ==
    /\ size = g.size
    /\ board = g.board
    /\ states = g.states
    /\ current_color = g.current_color
    /\ black_passed = g.black_passed
    /\ white_passed = g.white_passed
    /\ nbr_moves = g.nbr_moves
    /\ singleplayer = g.singleplayer

(* The game in which the four stones of KoSetup have been played. *)
KoGame == Replay(NewGame(3), KoSetup)

(* A run that starts from the game KoGame. *)
InitKo ==
    /\ scope \in ConfigsKo
    /\ frame = NoFrame
    /\ Starts(KoGame)
    /\ ret = [op |-> "init", ok |-> FALSE, capture |-> FALSE, why |-> "none",
              raised |-> FALSE]
    /\ turns = <<"stone", "stone", "stone">>
    /\ out = NoValue

SpecKo == InitKo /\ [][NextBoard]_vars

(* The runs of a game played without passes on a 2x2 board. *)
ConfigsStones ==
    { [size |-> 2, tried |-> Pos(2), turns |-> MaxMoves + 5,
       hist |-> MaxMoves + 6] }

(* A game in which only take_move is called. *)
NextStones == \E c \in scope.tried : TakeMove(c[1], c[2])

InitStones == InitWith(ConfigsStones)

SpecStones == InitStones /\ [][NextStones]_vars

(***************************************************************************)
(* Scoring: Goban._calc_territories, Goban.score, GoGame.get_winner.       *)
(***************************************************************************)

(* The cells in the order of the two nested range(size) loops. *)
CellSeq(n) == [i \in 1 .. n * n |-> <<(i - 1) \div n, (i - 1) % n>>]

(* The while loop of Goban._calc_territories (lines 273-286): a BFS over   *)
(* the empty cells, collecting the territory and the colours bordering it. *)
RECURSIVE TerritoryBFS(_, _, _, _, _, _)
TerritoryBFS(n, b, queue, visited, territory, border_colors) ==
    IF queue = <<>>
    THEN [visited |-> visited, territory |-> territory,
          border_colors |-> border_colors]
    ELSE LET c == Head(queue)
             skip == c \in visited
             nbs == Neighbours(n, c)
             seen == visited \cup {c}
             free(q) == b[q] = EMPTY /\ q \notin seen
         IN TerritoryBFS(n, b,
                         IF skip THEN Tail(queue)
                         ELSE Tail(queue) \o SelectSeq(nbs, free),
                         IF skip THEN visited ELSE seen,
                         IF skip THEN territory ELSE territory \cup {c},
                         IF skip THEN border_colors
                         ELSE border_colors
                              \cup {b[q] : q \in {r \in Range(nbs) : b[r] # EMPTY}})

(* Mutant of Assign: a region that touches no stone goes to Black. *)
Assign_untouched(st, b, c, r) ==
    IF b[c] # EMPTY \/ c \in st.visited THEN st
    ELSE [visited |-> r.visited,
          black |-> IF r.border_colors \subseteq {BLACK}
                    THEN Append(st.black, r.territory) ELSE st.black,
          white |-> IF r.border_colors = {WHITE}
                    THEN Append(st.white, r.territory) ELSE st.white]

(* Mutant of Assign: a region bordered by both colours goes to Black. *)
Assign_contested(st, b, c, r) ==
    IF b[c] # EMPTY \/ c \in st.visited THEN st
    ELSE [visited |-> r.visited,
          black |-> IF BLACK \in r.border_colors
                    THEN Append(st.black, r.territory) ELSE st.black,
          white |-> IF r.border_colors = {WHITE}
                    THEN Append(st.white, r.territory) ELSE st.white]

(* One round of the loops of Goban._calc_territories for the cell c (lines *)
(* 266-290): st holds the visited set and the territories found so far, r  *)
(* the result of the BFS from c (run only when c is empty and not visited).*)
Assign(st, b, c, r) ==
    IF b[c] # EMPTY \/ c \in st.visited THEN st
    ELSE [visited |-> r.visited,
          black |-> IF r.border_colors = {BLACK}
                    THEN Append(st.black, r.territory) ELSE st.black,
          white |-> IF r.border_colors = {WHITE}
                    THEN Append(st.white, r.territory) ELSE st.white]

(* The loops of Goban._calc_territories over the cells (lines 264-290). *)
RECURSIVE TerritoryLoop(_, _, _, _)
TerritoryLoop(n, b, cells, st) ==
    IF cells = <<>> THEN st
    ELSE TerritoryLoop(n, b, Tail(cells),
                       Assign(st, b, Head(cells),
                              TerritoryBFS(n, b,
                                           IF b[Head(cells)] # EMPTY
                                              \/ Head(cells) \in st.visited
                                           THEN <<>> ELSE <<Head(cells)>>,
                                           st.visited, {}, {})))

(* Goban._calc_territories: the lists of territories of Black and White. *)
calc_territories(n, b) ==
    TerritoryLoop(n, b, CellSeq(n),
                  [visited |-> {}, black |-> <<>>, white |-> <<>>])

(* The sum of the sizes of the sets of a list. *)
RECURSIVE SumLen(_)
SumLen(list) ==
    IF list = <<>> THEN 0 ELSE Cardinality(Head(list)) + SumLen(Tail(list))

(* Mutant of Scored: the territories are left out of the score. *)
Scored_stones_only(b, t) ==
    BLACK :> Cardinality({p \in DOMAIN b : b[p] = BLACK})
    @@ WHITE :> Cardinality({p \in DOMAIN b : b[p] = WHITE})

(* Lines 307-318 of Goban.score, given the territories t. *)
Scored(b, t) ==
    BLACK :> (Cardinality({p \in DOMAIN b : b[p] = BLACK}) + SumLen(t.black))
    @@ WHITE :> (Cardinality({p \in DOMAIN b : b[p] = WHITE}) + SumLen(t.white))

(* Goban.score (and GoGame.get_score, which returns it). *)
score(n, b) == Scored(b, calc_territories(n, b))

(* The value of get_winner when the scores are equal (None). *)
NONE == 0

(* Mutant of Winner: equal scores are a win for Black. *)
Winner_black_on_tie(sc) ==
    IF sc[BLACK] >= sc[WHITE] THEN BLACK
    ELSE IF sc[WHITE] > sc[BLACK] THEN WHITE
    ELSE NONE

(* Lines 454-458 of GoGame.get_winner, given the score sc. *)
Winner(sc) ==
    IF sc[BLACK] > sc[WHITE] THEN BLACK
    ELSE IF sc[WHITE] > sc[BLACK] THEN WHITE
    ELSE NONE

(* GoGame.get_winner *)
get_winner(n, b) == Winner(score(n, b))

(* The runs that score grids: every grid of a 2x2 and of a 3x3 board. *)
ConfigsScore ==
    { [size |-> 2, tried |-> {}, turns |-> 0, hist |-> 1],
      [size |-> 3, tried |-> {}, turns |-> 0, hist |-> 1] }

(* A new game whose grid has been given any contents (the grid is a public *)
(* attribute, which the tests and game_from_dict assign).                  *)
InitScore ==
    /\ scope \in ConfigsScore
    /\ frame = NoFrame
    /\ size = scope.size
    /\ board \in [Pos(size) -> {EMPTY, BLACK, WHITE}]
    /\ states = <<EmptyBoard(size)>>
    /\ current_color = BLACK
    /\ black_passed = FALSE
    /\ white_passed = FALSE
    /\ nbr_moves = 0
    /\ singleplayer = FALSE
    /\ ret = [op |-> "init", ok |-> FALSE, capture |-> FALSE, why |-> "none",
              raised |-> FALSE]
    /\ turns = <<>>
    /\ out = NoValue

(* The effect of a query that returns value: only out changes. *)
Returns(kind, value) ==
    /\ out' = [kind |-> kind, value |-> value]
    /\ UNCHANGED <<size, board, states, current_color, black_passed,
                   white_passed, nbr_moves, singleplayer, ret, turns, scope, frame>>

(* A call of GoGame.get_score. *)
GetScore == Returns("score", score(size, board))

(* A call of GoGame.get_winner. *)
GetWinner == Returns("winner", get_winner(size, board))

NextScore == GetScore \/ GetWinner

SpecScore == InitScore /\ [][NextScore]_vars

(***************************************************************************)
(* Copies and serialisation: GoGame.copy, game_to_dict, game_from_dict.    *)
(***************************************************************************)

(* GoGame.copy: a new game of the same size whose grid, history, colour,   *)
(* pass flags and move count are set from g; the new game keeps the        *)
(* singleplayer value of its constructor.                                  *)
copy(g) ==
    [NewGame(g.size) EXCEPT !.board = g.board,
                            !.states = g.states,
                            !.current_color = g.current_color,
                            !.black_passed = g.black_passed,
                            !.white_passed = g.white_passed,
                            !.nbr_moves = g.nbr_moves]

(* ndarray.tolist(): the grid as a list of rows, each a list of values. *)
tolist(n, b) == [i \in 1 .. n |-> [j \in 1 .. n |-> b[<<i - 1, j - 1>>]]]

(* np.array(rows): the grid of a list of rows. *)
array(rows) ==
    [p \in Pos(Len(rows)) |-> rows[p[1] + 1][p[2] + 1]]

(* game_to_dict *)
game_to_dict(g) ==
    [size |-> g.size,
     board |-> tolist(g.size, g.board),
     current_color |-> g.current_color,
     black_passed |-> g.black_passed,
     white_passed |-> g.white_passed,
     nbr_moves |-> g.nbr_moves,
     states |-> [i \in 1 .. Len(g.states) |-> tolist(g.size, g.states[i])],
     singleplayer |-> g.singleplayer]

(* Mutant of game_from_dict: the history is not read back. *)
game_from_dict_no_states(data) ==
    [NewGame(data.size) EXCEPT !.board = array(data.board),
                               !.current_color = data.current_color,
                               !.black_passed = data.black_passed,
                               !.white_passed = data.white_passed,
                               !.nbr_moves = data.nbr_moves,
                               !.singleplayer = data.singleplayer]

(* game_from_dict *)
game_from_dict(data) ==
    [NewGame(data.size) EXCEPT !.board = array(data.board),
                               !.current_color = data.current_color,
                               !.black_passed = data.black_passed,
                               !.white_passed = data.white_passed,
                               !.nbr_moves = data.nbr_moves,
                               !.states = [i \in 1 .. Len(data.states)
                                           |-> array(data.states[i])],
                               !.singleplayer = data.singleplayer]

(* A call of GoGame.set_singleplayer. *)
SetSingleplayer ==
    /\ singleplayer' = TRUE
    /\ out' = NoValue
    /\ UNCHANGED <<size, board, states, current_color, black_passed,
                   white_passed, nbr_moves, ret, turns, scope, frame>>

(* A call of GoGame.copy on the live game. *)
Copy == Returns("copy", copy(Game))

(* game_from_dict called on the result of game_to_dict of the live game. *)
ToFromDict == Returns("from_dict", game_from_dict(game_to_dict(Game)))

(* The runs that copy and serialise games. *)
ConfigsCopy ==
    { [size |-> 2, tried |-> AllCoords(2), turns |-> MaxMoves + 1,
       hist |-> MaxMoves + 2],
      [size |-> 3, tried |-> KoCells, turns |-> MaxMoves,
       hist |-> MaxMoves + 1] }

InitCopy == InitWith(ConfigsCopy)

(* Moves and passes on a game, the single-player switch, and copies and    *)
(* serialisation round trips of the game.                                  *)
NextCopy ==
    \/ \E c \in scope.tried : TakeMove(c[1], c[2])
    \/ PassMove
    \/ SetSingleplayer
    \/ Copy
    \/ ToFromDict

SpecCopy == InitCopy /\ [][NextCopy]_vars

(***************************************************************************)
(* The strategies of src/player/ai.py: Martin (random trials) and the      *)
(* alpha-beta search of Leo and Magnus.                                    *)
(***************************************************************************)

(* float("inf"): a value above every score differential. *)
Inf == 1000

(* The search depths of Leo and Magnus (choose_move(nbr_moves=...)). *)
LeoDepth == 2
MagnusDepth == 4

Max(a, b) == IF a >= b THEN a ELSE b
Min(a, b) == IF a <= b THEN a ELSE b

(* What a strategy returns: a coordinate, "pass" or "resign". *)
Move(p) == [kind |-> "move", at |-> p]
Pass == [kind |-> "pass", at |-> <<>>]
Resign == [kind |-> "resign", at |-> <<>>]

(* np.argwhere(board == EMPTY): the empty cells in row-major order. *)
empty_positions(n, b) ==
    LET free(p) == b[p] = EMPTY IN SelectSeq(CellSeq(n), free)

(* opponent_color of ai.py (lines 68, 236). *)
opponent_color(color) == IF color = WHITE THEN BLACK ELSE WHITE

(* score[color] - score[opponent_color] *)
Differential(sc, color) == sc[color] - sc[opponent_color(color)]

(* Mutant of copy_shares: the copy holds the original's grid array. *)
copy_shares_board == {"board"}

(* The objects of the game copy() returns that are objects of the original *)
(* too: none, the grid is board.copy() and the history a new list of       *)
(* state.copy() (core.py 370-371).                                         *)
copy_shares == {}

(* The original after take_move was called on a copy that shares the       *)
(* objects named in shares: possible_move writes the stone and its         *)
(* captures into the array the copy holds before it rebinds the copy's     *)
(* grid to the snapshot (core.py 169-191), and play_move appends to the    *)
(* list the copy holds (core.py 226).  sim is the simulation of the move   *)
(* and r the result of take_move on the copy.                              *)
Origin(g, shares, sim, r) ==
    [g EXCEPT !.board = IF "board" \in shares /\ sim.why \notin {"off_board", "occupied"}
                        THEN sim.board ELSE @,
              !.states = IF "states" \in shares /\ r.ok
                         THEN r.game.states ELSE @]

(* The result of take_move on a copy of g, the copy after the call and the *)
(* game g it was copied from after the call.                               *)
OnCopyDone(g, shares, sim, r) ==
    [ok |-> r.ok, game |-> r.game, origin |-> Origin(g, shares, sim, r)]

(* temp_game = game.copy(); temp_game.take_move(x, y) *)
OnCopy(g, x, y) ==
    OnCopyDone(g, copy_shares,
               SimulateMove(g.size, g.board, g.states, x, y, g.current_color),
               take_move(copy(g), x, y))

(* Mutant of Fold: the loop stops after the first legal move. *)
Fold_stops_early(maximizing_player, acc, eval) ==
    IF maximizing_player
    THEN [best |-> Max(acc.best, eval), alpha |-> Max(acc.alpha, eval),
          beta |-> acc.beta, stop |-> TRUE]
    ELSE [best |-> Min(acc.best, eval), alpha |-> acc.alpha,
          beta |-> Min(acc.beta, eval), stop |-> TRUE]

(* Lines 256-259 and 270-273 of look_ahead: the best evaluation and the    *)
(* window after a child evaluated eval, and whether the loop breaks.       *)
Fold(maximizing_player, acc, eval) ==
    IF maximizing_player
    THEN [best |-> Max(acc.best, eval), alpha |-> Max(acc.alpha, eval),
          beta |-> acc.beta, stop |-> acc.beta <= Max(acc.alpha, eval)]
    ELSE [best |-> Min(acc.best, eval), alpha |-> acc.alpha,
          beta |-> Min(acc.beta, eval), stop |-> Min(acc.beta, eval) <= acc.alpha]

RECURSIVE look_ahead(_, _, _, _, _, _)
RECURSIVE LookLoop(_, _, _, _, _, _)
RECURSIVE Visit(_, _, _, _, _)

(* One round of a loop of look_ahead (lines 250-259, 264-273): r is the    *)
(* result of take_move on the copy of the position.                        *)
Visit(color, depth, maximizing_player, acc, r) ==
    IF ~r.ok THEN acc
    ELSE Fold(maximizing_player, acc,
              look_ahead(r.game, color, depth - 1, ~maximizing_player,
                         acc.alpha, acc.beta))

(* The loops of look_ahead over the empty positions (lines 249-260 and     *)
(* 263-274).                                                               *)
LookLoop(g, color, depth, maximizing_player, positions, acc) ==
    IF positions = <<>> \/ acc.stop THEN acc.best
    ELSE LookLoop(g, color, depth, maximizing_player, Tail(positions),
                  Visit(color, depth, maximizing_player, acc,
                        OnCopy(g, Head(positions)[1], Head(positions)[2])))

(* look_ahead of _true_ai_choose_move (lines 238-274). *)
look_ahead(g, color, depth, maximizing_player, alpha, beta) ==
    IF depth = 0
    THEN Differential(score(g.size, g.board), color)
    ELSE LookLoop(g, color, depth, maximizing_player,
                  empty_positions(g.size, g.board),
                  [best |-> IF maximizing_player THEN -Inf ELSE Inf,
                   alpha |-> alpha, beta |-> beta, stop |-> FALSE])

(* Mutant of RootFold: a candidate that equals the best score is not kept. *)
RootFold_first_only(acc, p, g, sc) ==
    IF sc > acc.best_score
    THEN [best_score |-> sc, best_move |-> <<p>>, none |-> FALSE, g |-> g]
    ELSE [acc EXCEPT !.g = g]

(* Lines 292-296 of _true_ai_choose_move: the best score and the list of   *)
(* best moves after the candidate p evaluated sc (none: best_move is None).*)
RootFold(acc, p, g, sc) ==
    IF sc > acc.best_score
    THEN [best_score |-> sc, best_move |-> <<p>>, none |-> FALSE, g |-> g]
    ELSE IF sc = acc.best_score /\ ~acc.none
    THEN [best_score |-> acc.best_score, best_move |-> Append(acc.best_move, p),
          none |-> FALSE, g |-> g]
    ELSE [acc EXCEPT !.g = g]

(* Mutant of RootDepth: the candidate move is counted in nbr_moves. *)
RootDepth_less(nbr) == nbr - 1

(* The depth _true_ai_choose_move passes to look_ahead for the game after  *)
(* a candidate move (line 291): nbr_moves itself.                          *)
RootDepth(nbr) == nbr

(* One round of the loop over the candidates (lines 285-296): r is the     *)
(* result of take_move on the copy of the game.                            *)
RootVisit(color, nbr, acc, p, r) ==
    IF ~r.ok THEN [acc EXCEPT !.g = r.origin]
    ELSE RootFold(acc, p, r.origin,
                  look_ahead(r.game, color, RootDepth(nbr), FALSE, -Inf, Inf))

(* The loop over the candidates (lines 285-296); acc.g is the game the     *)
(* strategy was called on, as the calls so far have left it.  No score is  *)
(* above Inf: the second test only has acc evaluated round by round.       *)
RECURSIVE RootLoop(_, _, _, _)
RootLoop(color, nbr, positions, acc) ==
    IF positions = <<>> \/ acc.best_score > Inf THEN acc
    ELSE RootLoop(color, nbr, Tail(positions),
                  RootVisit(color, nbr, acc, Head(positions),
                            OnCopy(acc.g, Head(positions)[1],
                                   Head(positions)[2])))

RECURSIVE Leaves(_, _, _, _, _, _, _)
RECURSIVE LeavesLoop(_, _, _, _, _, _, _)

(* One round of a loop of look_ahead as in Visit, with the plies of the    *)
(* leaves evaluated below the child collected beside the window.  ply is   *)
(* the number of moves played since choose_move was called.                *)
LeavesVisit(color, depth, maximizing_player, acc, r, ply) ==
    IF ~r.ok THEN acc
    ELSE [fold |-> Fold(maximizing_player, acc.fold,
                        look_ahead(r.game, color, depth - 1, ~maximizing_player,
                                   acc.fold.alpha, acc.fold.beta)),
          plies |-> acc.plies
                    \cup Leaves(r.game, color, depth - 1, ~maximizing_player,
                                acc.fold.alpha, acc.fold.beta, ply + 1)]

(* The loops of look_ahead as in LookLoop, returning the plies collected. *)
LeavesLoop(g, color, depth, maximizing_player, positions, acc, ply) ==
    IF positions = <<>> \/ acc.fold.stop THEN acc.plies
    ELSE LeavesLoop(g, color, depth, maximizing_player, Tail(positions),
                    LeavesVisit(color, depth, maximizing_player, acc,
                                OnCopy(g, Head(positions)[1], Head(positions)[2]),
                                ply),
                    ply)

(* The plies at which look_ahead called on game g, itself ply moves after  *)
(* the call of choose_move, takes its leaf evaluations (lines 241-243):    *)
(* the calls are those of look_ahead, cut off by the same breaks.          *)
Leaves(g, color, depth, maximizing_player, alpha, beta, ply) ==
    IF depth = 0
    THEN {ply}
    ELSE LeavesLoop(g, color, depth, maximizing_player,
                    empty_positions(g.size, g.board),
                    [fold |-> [best |-> IF maximizing_player THEN -Inf ELSE Inf,
                               alpha |-> alpha, beta |-> beta, stop |-> FALSE],
                     plies |-> {}],
                    ply)

(* The plies of the leaf evaluations _true_ai_choose_move(g, color, nbr)   *)
(* takes below the candidate p (line 291).                                 *)
RootLeaves(g, color, nbr, p) ==
    Leaves(take_move(copy(g), p[1], p[2]).game, color, RootDepth(nbr), FALSE,
           -Inf, Inf, 1)

(* Mutant of Chosen: the test of line 298 is left out. *)
Chosen_plays_on(current_score, root) ==
    IF root.none
    THEN {[value |-> Pass, g |-> root.g]}
    ELSE {[value |-> Move(root.best_move[i]), g |-> root.g] :
            i \in 1 .. Len(root.best_move)}

(* Lines 298-304 of _true_ai_choose_move: what may be returned, given the  *)
(* current score differential and the result root of the loop.             *)
Chosen(current_score, root) ==
    IF root.best_score - current_score <= 0 /\ current_score > 0
    THEN {[value |-> Pass, g |-> root.g]}
    ELSE IF root.none
    THEN {[value |-> Pass, g |-> root.g]}
    ELSE {[value |-> Move(root.best_move[i]), g |-> root.g] :
            i \in 1 .. Len(root.best_move)}

(* _true_ai_choose_move: the set of pairs of a value it may return and the *)
(* game it was called on as the call leaves it.                            *)
true_ai_choose_move(g, color, nbr) ==
    IF Len(empty_positions(g.size, g.board)) = 0
    THEN {[value |-> Pass, g |-> g]}
    ELSE Chosen(Differential(score(g.size, g.board), color),
                RootLoop(color, nbr, empty_positions(g.size, g.board),
                         [best_score |-> -Inf, best_move |-> <<>>,
                          none |-> TRUE, g |-> g]))

(* The trial loop of Martin.choose_move (lines 154-171) over the set of    *)
(* empty positions not tried yet: np.random.choice picks any of them.      *)
RECURSIVE MartinLoop(_, _)
RECURSIVE MartinTrial(_, _, _)

(* Mutant of MartinTrial: the position is returned whatever take_move says. *)
MartinTrial_unchecked(remaining, p, r) == {[value |-> Move(p), g |-> r.origin]}

(* One trial of the loop, at position p, whose take_move on a copy gave r. *)
MartinTrial(remaining, p, r) ==
    IF r.ok THEN {[value |-> Move(p), g |-> r.origin]}
    ELSE MartinLoop(r.origin, remaining \ {p})

MartinLoop(g, remaining) ==
    IF remaining = {} THEN {[value |-> Pass, g |-> g]}
    ELSE UNION {MartinTrial(remaining, p, OnCopy(g, p[1], p[2])) : p \in remaining}

(* Martin.choose_move: rd.random() may fall under resign_probability, and  *)
(* under pass_probability when the opponent of Martin's colour has passed. *)
martin_choose_move(g, color) ==
    {[value |-> Resign, g |-> g]}
    \cup (IF (g.black_passed /\ color = WHITE) \/ (g.white_passed /\ color = BLACK)
          THEN {[value |-> Pass, g |-> g]} ELSE {})
    \cup MartinLoop(g, Range(empty_positions(g.size, g.board)))

(* A strategy has returned o.value and left the game as o.g. *)
Chose(ai, color, depth, o) ==
    /\ Becomes(o.g)
    /\ out' = [kind |-> "choose_move", ai |-> ai, color |-> color,
               depth |-> depth, value |-> o.value]
    /\ UNCHANGED <<ret, turns, scope, frame>>

(* A call of Martin.choose_move by a Martin of colour color, made after a  *)
(* call on the game (not after another query).                             *)
MartinChooseMove(color) ==
    /\ out = NoValue
    /\ \E o \in martin_choose_move(Game, color) : Chose("Martin", color, 0, o)

(* A call of TrueAI.choose_move(nbr) by a player of colour color, made     *)
(* after a call on the game (not after another query).                     *)
TrueAIChooseMove(color, nbr) ==
    /\ out = NoValue
    /\ \E o \in true_ai_choose_move(Game, color, nbr) : Chose("TrueAI", color, nbr, o)

(* clone = game.copy(), kept to be played on. *)
CloneGame ==
    /\ out' = [kind |-> "clone", value |-> copy(Game), shares |-> copy_shares]
    /\ UNCHANGED <<size, board, states, current_color, black_passed,
                   white_passed, nbr_moves, singleplayer, ret, turns, scope, frame>>

(* The effect of take_move on the clone, whose simulation is sim and whose *)
(* result is r, followed while the clone is at most scope.ahead turns      *)
(* ahead of the game.                                                      *)
CloneTakeMoveDone(sim, r) ==
    /\ r.game.nbr_moves <= nbr_moves + scope.ahead
    /\ Becomes(Origin(Game, out.shares, sim, r))
    /\ out' = [kind |-> "clone", value |-> r.game,
               shares |-> IF sim.why \in {"off_board", "occupied"}
                          THEN out.shares ELSE out.shares \ {"board"}]
    /\ UNCHANGED <<ret, turns, scope, frame>>

(* clone.take_move(x, y) *)
CloneTakeMove(x, y) ==
    /\ out.kind = "clone"
    /\ CloneTakeMoveDone(SimulateMove(size, out.value.board, out.value.states,
                                      x, y, out.value.current_color),
                         take_move(out.value, x, y))

(* clone.pass_move() *)
ClonePassMove ==
    /\ out.kind = "clone"
    /\ out.value.nbr_moves < nbr_moves + scope.ahead
    /\ out' = [out EXCEPT !.value = pass_move(@)]
    /\ UNCHANGED <<size, board, states, current_color, black_passed,
                   white_passed, nbr_moves, singleplayer, ret, turns, scope, frame>>

(* The runs of the strategies: the depths searched and the number of turns *)
(* a clone is played ahead of its game.                                    *)
ConfigsAI ==
    { [size |-> 2, tried |-> Pos(2), turns |-> MaxMoves, hist |-> MaxMoves + 1,
       depths |-> {1, LeoDepth, MagnusDepth}, ahead |-> 2],
      [size |-> 3, tried |-> Pos(3), turns |-> MaxMoves - 2, hist |-> MaxMoves,
       depths |-> {1, LeoDepth}, ahead |-> 0] }

(* The runs of the strategies from the ko position KoGame. *)
ConfigsKoAI ==
    { [size |-> 3, tried |-> {<<0, 0>>, <<0, 1>>, <<2, 2>>}, turns |-> MaxMoves + 3,
       hist |-> MaxMoves + 4, depths |-> {1, LeoDepth}, ahead |-> 0] }

(* Four stones on a 3x3 board, Black (0,0), White (0,2), Black (1,0),      *)
(* White (2,2), after which Black at (1,1) leaves White only moves that    *)
(* Black can answer so that no move is legal for White.                    *)
SqueezeSetup == << <<0, 0>>, <<0, 2>>, <<1, 0>>, <<2, 2>> >>

SqueezeGame == Replay(NewGame(3), SqueezeSetup)

(* The runs of the strategies from the game SqueezeGame. *)
ConfigsSqueezeAI ==
    { [size |-> 3, tried |-> {<<1, 1>>, <<0, 1>>, <<2, 1>>}, turns |-> MaxMoves + 3,
       hist |-> MaxMoves + 4, depths |-> {LeoDepth}, ahead |-> 0] }

(* A run that starts from the game g, reached by stone moves. *)
StartsFrom(g, configs) ==
    /\ scope \in configs
    /\ frame = NoFrame
    /\ Starts(g)
    /\ ret = [op |-> "init", ok |-> FALSE, capture |-> FALSE, why |-> "none",
              raised |-> FALSE]
    /\ turns = <<"stone", "stone", "stone">>
    /\ out = NoValue

(* A new game, or the game KoGame, or the game SqueezeGame. *)
InitAI ==
    \/ StartsFrom(SqueezeGame, ConfigsSqueezeAI)
    \/ InitWith(ConfigsAI)
    \/ /\ scope \in ConfigsKoAI
       /\ frame = NoFrame
       /\ Starts(KoGame)
       /\ ret = [op |-> "init", ok |-> FALSE, capture |-> FALSE, why |-> "none",
                 raised |-> FALSE]
       /\ turns = <<"stone", "stone", "stone">>
       /\ out = NoValue

(* Moves and passes on a game, the strategies called on it, and a clone of *)
(* it played on.                                                           *)
NextAI ==
    \/ \E c \in scope.tried : TakeMove(c[1], c[2])
    \/ PassMove
    \/ \E color \in Colors : MartinChooseMove(color)
    \/ \E color \in Colors, nbr \in scope.depths : TrueAIChooseMove(color, nbr)
    \/ CloneGame
    \/ \E c \in scope.tried : CloneTakeMove(c[1], c[2])
    \/ ClonePassMove

SpecAI == InitAI /\ [][NextAI]_vars

(***************************************************************************)
(* Martin.choose_move statement by statement: the random branches, then    *)
(* the trial loop one round at a time.                                     *)
(***************************************************************************)

(* Martin.choose_move is inside its trial loop. *)
InLoop == out.kind = "martin" /\ out.at = "loop"

(* Martin.choose_move has returned out.value. *)
Returned == out.kind = "martin" /\ out.at = "done"

(* A call of Martin.choose_move that has returned value from the branch    *)
(* via, before the loop.                                                   *)
MartinDone(color, via, value) ==
    [kind |-> "martin", at |-> "done", via |-> via, color |-> color,
     empty_positions |-> {}, valid |-> FALSE, random_position |-> <<>>,
     trials |-> 0, value |-> value]

(* Lines 141-142: rd.random() falls under resign_probability. *)
MartinResigns(color) ==
    /\ out = NoValue
    /\ out' = MartinDone(color, "resign", Resign)
    /\ UNCHANGED <<size, board, states, current_color, black_passed,
                   white_passed, nbr_moves, singleplayer, ret, turns, scope, frame>>

(* Mutant of OpponentPassed: the pass flags are not looked at. *)
OpponentPassed_always(color) == TRUE

(* The test of lines 145-147 on the pass flag of the opponent's colour. *)
OpponentPassed(color) ==
    (black_passed /\ color = WHITE) \/ (white_passed /\ color = BLACK)

(* Lines 145-149: the opponent of Martin's colour has passed and           *)
(* rd.random() falls under pass_probability.                               *)
MartinPasses(color) ==
    /\ out = NoValue
    /\ OpponentPassed(color)
    /\ out' = MartinDone(color, "pass", Pass)
    /\ UNCHANGED <<size, board, states, current_color, black_passed,
                   white_passed, nbr_moves, singleplayer, ret, turns, scope, frame>>

(* Lines 152-154: neither branch returned; the empty positions are listed  *)
(* and valid is False.  trials counts the rounds of the loop (a record     *)
(* kept beside the program).                                               *)
MartinEntersLoop(color) ==
    /\ out = NoValue
    /\ out' = [kind |-> "martin", at |-> "loop", via |-> "loop", color |-> color,
               empty_positions |-> Range(empty_positions(size, board)),
               valid |-> FALSE, random_position |-> <<>>, trials |-> 0,
               value |-> Pass]
    /\ UNCHANGED <<size, board, states, current_color, black_passed,
                   white_passed, nbr_moves, singleplayer, ret, turns, scope, frame>>

(* The condition of the while loop (line 155). *)
LoopCondition == ~out.valid /\ out.empty_positions # {}

(* Mutant of Deleted: the position tried stays in the array. *)
Deleted_nothing(positions, p) == positions

(* np.delete(empty_positions, np.where(...)) of lines 162-166. *)
Deleted(positions, p) == positions \ {p}

(* The effect of one round of the loop at position p, whose take_move on a *)
(* copy gave r.                                                            *)
MartinTryDone(p, r) ==
    /\ Becomes(r.origin)
    /\ out' = [out EXCEPT !.valid = r.ok,
                          !.random_position = p,
                          !.empty_positions = Deleted(@, p),
                          !.trials = @ + 1]
    /\ UNCHANGED <<ret, turns, scope, frame>>

(* One round of the while loop (lines 155-166). *)
MartinTry ==
    /\ InLoop
    /\ LoopCondition
    /\ \E p \in out.empty_positions : MartinTryDone(p, OnCopy(Game, p[1], p[2]))

(* The loop is left and lines 168-171 return. *)
MartinReturns ==
    /\ InLoop
    /\ ~LoopCondition
    /\ out' = [out EXCEPT !.at = "done",
                          !.value = IF out.valid THEN Move(out.random_position)
                                    ELSE Pass]
    /\ UNCHANGED <<size, board, states, current_color, black_passed,
                   white_passed, nbr_moves, singleplayer, ret, turns, scope, frame>>

(* The runs of Martin: small boards played to the end, and the ko. *)
ConfigsMartin ==
    { [size |-> 2, tried |-> Pos(2), turns |-> MaxMoves + 3, hist |-> MaxMoves + 4],
      [size |-> 3, tried |-> Pos(3), turns |-> MaxMoves - 1, hist |-> MaxMoves] }

ConfigsKoMartin ==
    { [size |-> 3, tried |-> {<<0, 0>>, <<0, 1>>, <<2, 2>>}, turns |-> MaxMoves + 3,
       hist |-> MaxMoves + 4] }

InitMartin ==
    \/ InitWith(ConfigsMartin)
    \/ /\ scope \in ConfigsKoMartin
       /\ frame = NoFrame
       /\ Starts(KoGame)
       /\ ret = [op |-> "init", ok |-> FALSE, capture |-> FALSE, why |-> "none",
                 raised |-> FALSE]
       /\ turns = <<"stone", "stone", "stone">>
       /\ out = NoValue

(* Moves and passes on a game, made while no call of choose_move is        *)
(* running, and the statements of Martin.choose_move.                      *)
NextMartin ==
    \/ ~InLoop /\ \E c \in scope.tried : TakeMove(c[1], c[2])
    \/ ~InLoop /\ PassMove
    \/ \E color \in Colors : MartinResigns(color)
    \/ \E color \in Colors : MartinPasses(color)
    \/ \E color \in Colors : MartinEntersLoop(color)
    \/ MartinTry
    \/ MartinReturns

(* A call that has entered its loop goes on executing: weak fairness of    *)
(* the return and of the round of the loop.  MartinTry is enabled exactly  *)
(* when the loop condition holds inside the loop (every round changes      *)
(* out), so WF_vars(MartinTry) is written with that condition in the place *)
(* of ENABLED <<MartinTry>>_vars.                                          *)
SpecMartin ==
    /\ InitMartin /\ [][NextMartin]_vars
    /\ WF_vars(MartinReturns)
    /\ ([]<>(~(InLoop /\ LoopCondition)) \/ []<><<MartinTry>>_vars)

(***************************************************************************)
(* Construction with any size: Goban.__init__ and GoGame.__init__.         *)
(***************************************************************************)

(* np.zeros((n, n), dtype=int): numpy raises ValueError on a negative      *)
(* dimension and returns an array without elements for 0.                  *)
np_zeros(n) ==
    IF n < 0 THEN [raised |-> TRUE, array |-> <<>>]
    ELSE [raised |-> FALSE, array |-> EmptyBoard(n)]

(* The sizes games are constructed with, and the coordinates then tried. *)
ConfigsNew ==
    { [size |-> n, tried |-> Pos(2) \cup {<<-1, 0>>}, turns |-> MaxMoves + 1,
       hist |-> MaxMoves + 2] : n \in -1 .. 2 }

(* GoGame(size): the game whose grid is z = np.zeros((size, size)), or no  *)
(* game when np.zeros raised (ret.raised, and the fields hold nothing).    *)
Constructed(z) ==
    /\ size = scope.size
    /\ board = z.array
    /\ states = IF z.raised THEN <<>> ELSE <<z.array>>
    /\ current_color = BLACK
    /\ black_passed = FALSE
    /\ white_passed = FALSE
    /\ nbr_moves = 0
    /\ singleplayer = FALSE
    /\ ret = [op |-> "init", ok |-> ~z.raised, capture |-> FALSE, why |-> "none",
              raised |-> z.raised]
    /\ turns = <<>>
    /\ out = NoValue

InitNew ==
    /\ scope \in ConfigsNew
    /\ frame = NoFrame
    /\ Constructed(np_zeros(scope.size))

(* The constructor returned a game. *)
HasGame == ~(ret.op = "init" /\ ret.raised)

(* Moves and passes on the game constructed, if one was. *)
NextNew ==
    \/ HasGame /\ \E c \in scope.tried : TakeMove(c[1], c[2])
    \/ HasGame /\ PassMove

SpecNew == InitNew /\ [][NextNew]_vars

(***************************************************************************)
(* Properties.                                                             *)
(***************************************************************************)

(* The last call was an accepted stone move of the game. *)
AcceptedTake == ret.op = "take_move" /\ ret.ok

(* C1: possible_move leaves the grid and the history exactly as they were, *)
(* whether it returns true or false.                                       *)
C1_PossibleMoveFrame ==
    [][ret'.op = "possible_move"
       => (~ret'.raised /\ board' = board /\ states' = states)]_vars

(* A legality query whose simulation captured stones has returned true. *)
C1_Witness == ret.op = "possible_move" /\ ret.ok /\ ret.capture

(* C2: a rejected take_move (off the board, occupied, suicide or ko)       *)
(* returns (false, false) without raising and leaves the grid, the         *)
(* history, the active colour, both pass flags and the move count as they  *)
(* were; a move the legality check refuses for any of the four reasons is  *)
(* rejected.                                                               *)
C2_RejectedTakeMove ==
    [][ret'.op = "take_move"
       => /\ ~ret'.raised
          /\ ret'.why \in {"off_board", "occupied", "suicide", "ko"} => ~ret'.ok
          /\ ~ret'.ok
             => /\ ~ret'.capture
                /\ ret'.why \in {"off_board", "occupied", "suicide", "ko"}
                /\ UNCHANGED <<board, states, current_color, black_passed,
                               white_passed, nbr_moves>>]_vars

(* A take_move was rejected by the ko rule after stones were played. *)
C2_Witness == ret.op = "take_move" /\ ~ret.ok /\ ret.why = "ko" /\ nbr_moves >= 5

(* C3: an accepted take_move places one stone of the colour that was       *)
(* active on an empty cell, adds 1 to the move count, appends exactly one  *)
(* snapshot (the new grid) to the history, toggles the active colour and   *)
(* leaves both pass flags false.                                           *)
C3_AcceptedTakeMove ==
    [][(ret'.op = "take_move" /\ ret'.ok)
       => /\ \E p \in Pos(size) :
                /\ board[p] = EMPTY /\ board'[p] = current_color
                /\ \A q \in Pos(size) \ {p} :
                      board'[q] = board[q] \/ board'[q] = EMPTY
          /\ nbr_moves' = nbr_moves + 1
          /\ states' = Append(states, board')
          /\ current_color' \in Colors \ {current_color}
          /\ ~black_passed' /\ ~white_passed']_vars

(* A stone move was accepted right after a pass, whose flag was set. *)
C3_Witness ==
    AcceptedTake /\ Len(turns) >= 2 /\ turns[Len(turns) - 1] = "pass"

(* C4: pass_move sets the pass flag of the colour that was active, adds 1  *)
(* to the move count and toggles the active colour; the other colour's     *)
(* flag, the grid and the history stay as they were.                       *)
C4_PassMove ==
    [][ret'.op = "pass_move"
       => /\ current_color = BLACK
             => black_passed' /\ white_passed' = white_passed
          /\ current_color = WHITE
             => white_passed' /\ black_passed' = black_passed
          /\ nbr_moves' = nbr_moves + 1
          /\ current_color' \in Colors \ {current_color}
          /\ board' = board /\ states' = states]_vars

(* A pass made on a board with stones while the other flag was set. *)
C4_Witness ==
    ret.op = "pass_move" /\ black_passed /\ white_passed /\ Len(states) > 1

(* The two most recent accepted turns were both passes. *)
LastTwoPasses ==
    /\ Len(turns) >= 2
    /\ turns[Len(turns)] = "pass"
    /\ turns[Len(turns) - 1] = "pass"

(* C5: game_over() is true exactly when the two most recent accepted turns *)
(* were both passes.                                                       *)
C5_GameOverIffTwoPasses == game_over <=> LastTwoPasses

(* The game ended by two passes after a stone move. *)
C5_Witness == game_over /\ turns = <<"stone", "pass", "pass">>

(* C6, as stated: once game_over() is true, no call makes it false again   *)
(* or changes the grid.                                                    *)
C6_OverIsTerminal == [][game_over => (game_over' /\ board' = board)]_vars

(* C6, amended: once game_over() is true, pass_move, a rejected take_move  *)
(* and a legality query keep it true and leave the grid as it was; an      *)
(* accepted take_move, which the engine does not refuse when the game is   *)
(* over, clears both flags and changes the grid.                           *)
C6_OverLeftOnlyByStone ==
    [][game_over
       => IF ret'.op = "take_move" /\ ret'.ok
          THEN ~game_over' /\ board' # board
          ELSE game_over' /\ board' = board]_vars

(* A stone move was accepted in a game that two passes had ended. *)
C6_Witness ==
    AcceptedTake /\ turns = <<"pass", "pass", "stone">> /\ ~game_over

(* C7: the active colour changes on every accepted take_move and on every  *)
(* pass_move and on no other call, and it is Black exactly when the move   *)
(* count is even.                                                          *)
C7_ColourAlternates ==
    [][/\ current_color' # current_color
          <=> (ret'.op = "pass_move" \/ (ret'.op = "take_move" /\ ret'.ok))
       /\ current_color' \in Colors
       /\ current_color = BLACK <=> nbr_moves % 2 = 0
       /\ current_color' = BLACK <=> nbr_moves' % 2 = 0]_vars

(* White is to play after three turns, the last call a rejected move. *)
C7_Witness ==
    /\ nbr_moves = 3 /\ current_color = WHITE
    /\ ret.op = "take_move" /\ ~ret.ok
    /\ \E i \in 1 .. Len(turns) : turns[i] = "pass"

(* C8: the history is never empty, its first element is the all-empty      *)
(* grid, and the live grid equals its last snapshot.                       *)
C8_HistoryInvariant ==
    /\ Len(states) >= 1
    /\ states[1] = EmptyBoard(size)
    /\ board = states[Len(states)]

(* A capturing play_move has been recorded after at least two others. *)
C8_Witness ==
    ret.op = "play_move" /\ ret.ok /\ ret.capture /\ Len(states) >= 4

(* The cells of grid b that are orthogonal neighbours of p. *)
Around(b, p) ==
    DOMAIN b \cap {<<p[1] + 1, p[2]>>, <<p[1] - 1, p[2]>>,
                   <<p[1], p[2] + 1>>, <<p[1], p[2] - 1>>}

(* The least set of cells that holds S and every cell of value v adjacent  *)
(* to one of its cells.                                                    *)
RECURSIVE Connected(_, _, _)
Connected(b, v, S) ==
    LET T == S \cup {q \in UNION {Around(b, p) : p \in S} : b[q] = v}
    IN IF T = S THEN S ELSE Connected(b, v, T)

(* The chain of the stone at p: the maximal connected set of its colour. *)
Chain(b, p) == Connected(b, b[p], {p})

(* The liberties of a set of cells: the empty cells adjacent to it. *)
Liberties(b, S) == {q \in UNION {Around(b, p) : p \in S} : b[q] = EMPTY}

(* The other stone colour. *)
Other(c) == IF c = BLACK THEN WHITE ELSE BLACK

(* The stones of the chains of colour Other(c) that are adjacent to p and  *)
(* have no liberty on grid b.                                              *)
DeadAround(b, p, c) ==
    UNION {Chain(b, q) : q \in {r \in Around(b, p) :
                                    /\ b[r] = Other(c)
                                    /\ Liberties(b, Chain(b, r)) = {}}}

(* Grid b with the cells of S emptied. *)
Without(b, S) == [q \in DOMAIN b |-> IF q \in S THEN EMPTY ELSE b[q]]

(* The grid of the capture scenario before and after Black plays (2,3). *)
CaptureBefore ==
    [p \in Pos(5) |-> IF p = <<2, 2>> THEN WHITE
                      ELSE IF p \in {<<1, 2>>, <<3, 2>>, <<2, 1>>} THEN BLACK
                      ELSE EMPTY]

CaptureAfter ==
    [p \in Pos(5) |-> IF p \in {<<1, 2>>, <<3, 2>>, <<2, 1>>, <<2, 3>>} THEN BLACK
                      ELSE EMPTY]

(* The result of play_move fits the capture scenario. *)
CapturesCentre(r) == r.ok /\ r.capture /\ r.board = CaptureAfter

(* The grid after an accepted move at p is the grid before with the stone  *)
(* placed and the dead opponent chains around it removed.                  *)
ExactCapture(before, after, p, captured) ==
    LET c == after[p]
        placed == Place(before, p, c)
        dead == DeadAround(placed, p, c)
    IN /\ after = Without(placed, dead)
       /\ captured <=> dead # {}

(* C9: an accepted play_move removes exactly the opponent chains adjacent  *)
(* to the placed stone that have no liberty once it is placed, and returns *)
(* captured = true exactly when a stone was removed; on the 5x5 scenario   *)
(* Black at (2,3) is accepted, empties (2,2) and returns captured = true.  *)
C9_CaptureCorrect ==
    [][/\ (ret'.op \in {"play_move", "take_move"} /\ ret'.ok)
          => /\ \E p \in Pos(size) :
                   /\ board[p] = EMPTY /\ board'[p] # EMPTY
                   /\ ExactCapture(board, board', p, ret'.capture)
             /\ ret'.capture
                <=> \E q \in Pos(size) : board[q] # EMPTY /\ board'[q] = EMPTY
       /\ (size = 5 /\ board = CaptureBefore)
          => CapturesCentre(play_move(size, board, states, 2, 3, BLACK))]_vars

(* The capture of the 5x5 scenario has been played. *)
C9_Witness ==
    /\ size = 5 /\ board = CaptureAfter
    /\ ret.op = "play_move" /\ ret.ok /\ ret.capture
    /\ states[Len(states) - 1] = CaptureBefore

(* The grid of the suicide scenario. *)
SuicideBoard ==
    [p \in Pos(3) |-> IF p \in {<<0, 1>>, <<1, 0>>, <<1, 2>>} THEN WHITE ELSE EMPTY]

(* A stone of colour c on the empty cell p of grid b would have no liberty *)
(* and capture nothing.                                                    *)
IsSuicide(b, p, c) ==
    LET placed == Place(b, p, c)
    IN /\ \A q \in Around(b, p) : b[q] # EMPTY
       /\ Liberties(placed, Chain(placed, p)) = {}
       /\ DeadAround(placed, p, c) = {}

(* play_move refuses with (false, false) and changes nothing. *)
Refused(r, b, hist) ==
    ~r.ok /\ ~r.capture /\ ~r.raised /\ r.board = b /\ r.states = hist

(* C10: a move onto an empty cell whose own chain would have no liberty    *)
(* after placement, and that captures nothing, is rejected and leaves the  *)
(* board as it was; on the 3x3 scenario Black at (0,0) is rejected.        *)
C10_SuicideRejected ==
    /\ \A p \in Pos(size), c \in Colors :
          (board[p] = EMPTY /\ IsSuicide(board, p, c))
          => /\ ~possible_move(size, board, states, p[1], p[2], c).legal
             /\ Refused(play_move(size, board, states, p[1], p[2], c),
                        board, states)
    /\ (size = 3 /\ board = SuicideBoard)
       => Refused(play_move(size, board, states, 0, 0, BLACK), board, states)

(* Black at (0,0) has been refused as suicide on the 3x3 scenario. *)
C10_Witness ==
    /\ size = 3 /\ board = SuicideBoard
    /\ ret.op = "play_move" /\ ~ret.ok /\ ret.why = "suicide"

(* The grid after a stone of colour c is placed on the empty cell p of b   *)
(* and the opponent chains around it that have no liberty are removed.     *)
ResultGrid(b, p, c) ==
    Without(Place(b, p, c), DeadAround(Place(b, p, c), p, c))

(* Placing c at p on grid b recreates the grid prev and captures stones. *)
Recaptures(b, p, c, prev) ==
    /\ b[p] = EMPTY
    /\ DeadAround(Place(b, p, c), p, c) # {}
    /\ ResultGrid(b, p, c) = prev

(* Grid after is grid before with one stone added on the empty cell e. *)
OneStoneAdded(before, after, e) ==
    /\ before[e] = EMPTY /\ after[e] # EMPTY
    /\ \A q \in DOMAIN before \ {e} : after[q] = before[q]

(* The history ends with a capture followed by one stone played elsewhere, *)
(* and c at p is the recapture that the capture made a ko.                 *)
AfterOneElsewhere(p, c) ==
    /\ Len(states) >= 3
    /\ Recaptures(states[Len(states) - 1], p, c, states[Len(states) - 2])
    /\ \E e \in Pos(size) \ {p} :
          OneStoneAdded(states[Len(states) - 1], board, e)
    /\ DeadAround(Place(board, p, c), p, c)
       = DeadAround(Place(states[Len(states) - 1], p, c), p, c)

(* play_move accepts with a capture and records the grid it leaves. *)
AcceptedWith(r, b, hist) ==
    r.ok /\ r.capture /\ ~r.raised /\ r.board = b /\ r.states = Append(hist, b)

(* C11: the immediate recapture of a ko, the move whose resulting grid is  *)
(* the grid before the opponent's capturing move, is rejected and changes  *)
(* nothing; once one accepted stone move elsewhere has intervened the same *)
(* recapture is accepted.                                                  *)
C11_KoThenAccepted ==
    \A p \in Pos(size), c \in Colors :
       /\ (Len(states) >= 2 /\ Recaptures(board, p, c, states[Len(states) - 1]))
          => /\ possible_move(size, board, states, p[1], p[2], c).why = "ko"
             /\ Refused(play_move(size, board, states, p[1], p[2], c),
                        board, states)
       /\ AfterOneElsewhere(p, c)
          => AcceptedWith(play_move(size, board, states, p[1], p[2], c),
                          ResultGrid(board, p, c), states)

(* The recapture has been accepted after a capture and one stone played    *)
(* elsewhere: the grid is the grid before the capture plus that stone.     *)
C11_Witness ==
    /\ ret.op \in {"play_move", "take_move"} /\ ret.ok /\ ret.capture
    /\ Len(states) >= 4
    /\ \E p \in Pos(size) :
          /\ Recaptures(states[Len(states) - 2], p, board[p],
                        states[Len(states) - 3])
          /\ board = ResultGrid(states[Len(states) - 1], p, board[p])
          /\ \E e \in Pos(size) \ {p} :
                /\ OneStoneAdded(states[Len(states) - 2],
                                 states[Len(states) - 1], e)
                /\ OneStoneAdded(states[Len(states) - 3], board, e)

(* The maximal 4-connected region of empty cells that holds the empty     *)
(* cell p.                                                                 *)
Region(b, p) == Connected(b, EMPTY, {p})

(* The colours of the stones adjacent to a set of cells. *)
Bordering(b, S) == {b[q] : q \in {r \in UNION {Around(b, p) : p \in S} : b[r] # EMPTY}}

(* The empty cells whose region is bordered by stones of colour c only. *)
Owned(b, c) == {p \in DOMAIN b : b[p] = EMPTY /\ Bordering(b, Region(b, p)) = {c}}

(* The empty cells whose region belongs to neither colour. *)
Neutral(b) ==
    {p \in DOMAIN b : b[p] = EMPTY /\ Cardinality(Bordering(b, Region(b, p))) # 1}

(* The number of stones of colour c on grid b. *)
Stones(b, c) == Cardinality({p \in DOMAIN b : b[p] = c})

(* C12: score(Black) + score(White) equals size*size minus the number of   *)
(* empty cells in regions owned by neither colour; so the sum never        *)
(* exceeds size*size and equals it when no empty cell is neutral.          *)
C12_ScoreSum ==
    LET sc == score(size, board)
        neutral == Cardinality(Neutral(board))
    IN /\ sc[BLACK] + sc[WHITE] = size * size - neutral
       /\ sc[BLACK] + sc[WHITE] <= size * size
       /\ neutral = 0 => sc[BLACK] + sc[WHITE] = size * size

(* The score of a 3x3 grid with stones of both colours, owned territory    *)
(* and no neutral cell has been returned, and sums to 9.                   *)
C12_Witness ==
    /\ out.kind = "score" /\ size = 3
    /\ Neutral(board) = {} /\ Owned(board, BLACK) # {} /\ Owned(board, WHITE) # {}
    /\ out.value[BLACK] + out.value[WHITE] = 9

C14_Winner ==
    LET sc == score(size, board)
        w == get_winner(size, board)
    IN /\ w = BLACK <=> sc[BLACK] > sc[WHITE]
       /\ w = WHITE <=> sc[WHITE] > sc[BLACK]
       /\ w = NONE <=> sc[BLACK] = sc[WHITE]
       /\ board = EmptyBoard(size) => w = NONE
       /\ out.kind = "winner" => out.value = w

(* None was returned for a grid with stones whose scores are equal. *)
C14_Witness ==
    /\ out.kind = "winner" /\ out.value = NONE
    /\ Stones(board, BLACK) > 0 /\ Stones(board, WHITE) > 0

(* C15, as stated: the game copy() returns equals the original in grid,   *)
(* in full history and in all scalar state: active colour, both pass       *)
(* flags, move count and the single-player flag.                           *)
C15_CopyEqualsOriginal ==
    out.kind = "copy"
    => /\ out.value.board = board
       /\ Len(out.value.states) = Len(states)
       /\ \A i \in 1 .. Len(states) : out.value.states[i] = states[i]
       /\ out.value.current_color = current_color
       /\ out.value.black_passed = black_passed
       /\ out.value.white_passed = white_passed
       /\ out.value.nbr_moves = nbr_moves
       /\ out.value.singleplayer = singleplayer

(* A single-player game with stones and a pass has been copied, and the    *)
(* copy is not a single-player game.                                       *)
C15_Witness ==
    /\ out.kind = "copy" /\ singleplayer /\ ~out.value.singleplayer
    /\ Len(states) >= 2 /\ (black_passed \/ white_passed)

(* C19: game_from_dict(game_to_dict(g)) equals g in board, active colour,  *)
(* both pass flags, move count and history (same number of snapshots, each *)
(* equal element by element) for every game reachable by take_move and     *)
(* pass_move.                                                              *)
C19_DictRoundTrip ==
    out.kind = "from_dict"
    => /\ out.value.board = board
       /\ out.value.current_color = current_color
       /\ out.value.black_passed = black_passed
       /\ out.value.white_passed = white_passed
       /\ out.value.nbr_moves = nbr_moves
       /\ Len(out.value.states) = Len(states)
       /\ \A i \in 1 .. Len(states) :
             \A p \in Pos(size) : out.value.states[i][p] = states[i][p]

(* A game with a capture in its history and a pass has been rebuilt from   *)
(* its dict.                                                               *)
C19_Witness ==
    /\ out.kind = "from_dict"
    /\ Len(states) >= 4 /\ (black_passed \/ white_passed)
    /\ \E p \in Pos(size) : states[Len(states) - 1][p] # EMPTY /\ board[p] = EMPTY

(* The empty cells where take_move is accepted on a copy of the live game. *)
Candidates ==
    {p \in Pos(size) : board[p] = EMPTY /\ take_move(copy(Game), p[1], p[2]).ok}

(* The copy of game g after take_move at p. *)
After(g, p) == take_move(copy(g), p[1], p[2]).game

(* The games one accepted move after g. *)
Children(g) ==
    {r.game : r \in {k \in {take_move(copy(g), p[1], p[2]) : p \in Pos(g.size)} : k.ok}}

SetMax(S) == CHOOSE v \in S : \A w \in S : w <= v
SetMin(S) == CHOOSE v \in S : \A w \in S : v <= w

(* Exhaustive minimax without pruning: the score differential for color at *)
(* depth 0, else the largest (maximizing) or smallest value of the games   *)
(* one move on, and -Inf or Inf when there is none.                        *)
RECURSIVE Minimax(_, _, _, _)
Minimax(g, color, depth, maximizing) ==
    IF depth = 0
    THEN score(g.size, g.board)[color] - score(g.size, g.board)[Other(color)]
    ELSE LET vals == {Minimax(k, color, depth - 1, ~maximizing) : k \in Children(g)}
         IN IF vals = {} THEN (IF maximizing THEN -Inf ELSE Inf)
            ELSE IF maximizing THEN SetMax(vals) ELSE SetMin(vals)

(* The last call was a strategy's choose_move. *)
HasChosen == out.kind = "choose_move"

(* C16: a call of choose_move of any strategy leaves the live game's grid, *)
(* history, active colour, pass flags and move count as they were,         *)
(* whatever it returns; and no take_move or pass_move on a clone made by   *)
(* copy() changes the game it was copied from.                             *)
C16_StrategiesLeaveGame ==
    [][(out'.kind = "choose_move" \/ (out.kind = "clone" /\ out'.kind = "clone"))
       => UNCHANGED <<size, board, states, current_color, black_passed,
                      white_passed, nbr_moves>>]_vars

(* Magnus's search has returned a coordinate in a game with stones. *)
C16_Witness ==
    /\ HasChosen /\ out.ai = "TrueAI" /\ out.depth = MagnusDepth
    /\ out.value.kind = "move" /\ Len(states) >= 3

(* C17: whenever a strategy returns a coordinate, take_move with that      *)
(* coordinate is accepted on a clone of the game the strategy was called   *)
(* on.                                                                     *)
C17_ReturnedMoveAccepted ==
    (HasChosen /\ out.value.kind = "move")
    => /\ out.value.at \in Pos(size)
       /\ take_move(copy(Game), out.value.at[1], out.value.at[2]).ok

(* A strategy returned a coordinate while an empty cell was refused to the *)
(* mover by the ko rule.                                                   *)
C17_Witness ==
    /\ HasChosen /\ out.value.kind = "move"
    /\ \E p \in Pos(size) :
          /\ board[p] = EMPTY
          /\ possible_move(size, board, states, p[1], p[2], current_color).why = "ko"

(* The largest minimax evaluation of the candidates S of game g. *)
BestEvaluation(g, S, color, depth) ==
    SetMax({Minimax(After(g, p), color, depth, FALSE) : p \in S})

(* C18: the evaluation the alpha-beta search gives each root candidate,    *)
(* and so the move it returns, equals the evaluation of exhaustive minimax *)
(* without pruning at the same depth with the same leaf evaluation.        *)
C18_AlphaBetaEqualsMinimax ==
    (HasChosen /\ out.ai = "TrueAI")
    => /\ \A p \in Candidates :
             look_ahead(After(Game, p), out.color, out.depth, FALSE, -Inf, Inf)
             = Minimax(After(Game, p), out.color, out.depth, FALSE)
       /\ out.value.kind = "move"
          => Minimax(After(Game, out.value.at), out.color, out.depth, FALSE)
             = BestEvaluation(Game, Candidates, out.color, out.depth)

(* The search of game g for color at depth cuts off: the second reply to   *)
(* some candidate, searched under the bound the first reply set, gets a    *)
(* value that is not its minimax value.                                    *)
CutsOff(g, color, depth) ==
    \E p \in Pos(g.size) :
       /\ g.board[p] = EMPTY /\ take_move(copy(g), p[1], p[2]).ok
       /\ LET t == After(g, p)
              legal(q) == take_move(copy(t), q[1], q[2]).ok
              replies == SelectSeq(empty_positions(t.size, t.board), legal)
          IN /\ Len(replies) >= 2
             /\ look_ahead(After(t, replies[2]), color, depth - 1, TRUE, -Inf,
                           Minimax(After(t, replies[1]), color, depth - 1, TRUE))
                # Minimax(After(t, replies[2]), color, depth - 1, TRUE)

(* Leo's search has returned a coordinate on a 3x3 board after cutting off *)
(* part of the tree.                                                       *)
C18_Witness ==
    /\ HasChosen /\ out.ai = "TrueAI" /\ out.depth = LeoDepth
    /\ size = 3 /\ out.value.kind = "move"
    /\ CutsOff(Game, out.color, out.depth)

(* C20: the search returns Pass whenever no legal candidate exists, and    *)
(* whenever its colour is ahead (score differential > 0) and the best      *)
(* candidate evaluation does not exceed the current differential.          *)
C20_PassRule ==
    (HasChosen /\ out.ai = "TrueAI")
    => LET current == score(size, board)[out.color]
                      - score(size, board)[Other(out.color)]
       IN /\ Candidates = {} => out.value = Pass
          /\ (/\ Candidates # {}
              /\ current > 0
              /\ BestEvaluation(Game, Candidates, out.color, out.depth) <= current)
             => out.value = Pass

(* The search returned Pass although a legal candidate existed: its colour *)
(* was ahead and no candidate evaluated above the current differential.    *)
C20_Witness ==
    /\ HasChosen /\ out.ai = "TrueAI" /\ out.value = Pass
    /\ Candidates # {}
    /\ score(size, board)[out.color] > score(size, board)[Other(out.color)]

(* The candidates of the live game whose minimax evaluation for color at   *)
(* depth is the largest of all candidates.                                 *)
BestOf(evals) == {e[1] : e \in {e \in evals : \A f \in evals : f[2] <= e[2]}}
BestCandidates(color, depth) ==
    BestOf({<<p, Minimax(After(Game, p), color, depth, FALSE)>> : p \in Candidates})

(* The values the search may return on the live game. *)
MayReturn(color, depth) ==
    {o.value : o \in true_ai_choose_move(Game, color, depth)}

(* C21: whenever the search returns a coordinate, the coordinate's         *)
(* evaluation is the maximum over all legal candidates, and every legal    *)
(* candidate that attains the maximum is a value the call may return.      *)
C21_BestAndEveryTie ==
    (HasChosen /\ out.ai = "TrueAI" /\ out.value.kind = "move")
    => LET best == BestCandidates(out.color, out.depth)
       IN /\ out.value.at \in best
          /\ {Move(p) : p \in best} \subseteq MayReturn(out.color, out.depth)

(* The search returned a coordinate that is not the first of several       *)
(* candidates attaining the maximum, while another candidate is below it.  *)
C21_Witness ==
    /\ HasChosen /\ out.ai = "TrueAI" /\ out.value.kind = "move"
    /\ LET best == BestCandidates(out.color, out.depth)
       IN /\ Cardinality(best) >= 2
          /\ best # Candidates
          /\ \E p \in best :
                p[1] * size + p[2] < out.value.at[1] * size + out.value.at[2]

(* The number of empty cells of the live grid. *)
NbrEmpty == Cardinality({p \in Pos(size) : board[p] = EMPTY})

(* In and after the loop of Martin.choose_move: the rounds made do not     *)
(* exceed the empty cells, and a return from the loop gives a coordinate   *)
(* when an empty cell is a legal move of the active colour and Pass when   *)
(* none is.                                                                *)
MartinLoopBound ==
    /\ InLoop => out.trials <= NbrEmpty
    /\ (Returned /\ out.via = "loop")
       => /\ out.trials <= NbrEmpty
          /\ Candidates # {} => out.value.kind = "move"
          /\ Candidates = {} => out.value = Pass
    /\ (Returned /\ out.valid) => out.value.at \in Candidates

(* C22: when Martin takes neither random branch, its trial loop ends after *)
(* at most as many trials as there are empty cells, with a coordinate if   *)
(* an empty cell is a legal move for the active colour and Pass if none.   *)
C22_MartinLoopTerminates ==
    /\ []MartinLoopBound
    /\ InLoop ~> Returned

(* The loop returned a coordinate after a rejected trial. *)
C22_Witness ==
    /\ Returned /\ out.via = "loop" /\ out.value.kind = "move" /\ out.trials >= 2

(* C23: constructing a board or a game with a non-positive size (0 or a    *)
(* negative number) fails with an error instead of yielding an object.     *)
C23_NonPositiveSizeFails ==
    scope.size <= 0 => ~HasGame

(* A game of size 0 was constructed and a turn was passed on it. *)
C23_Witness ==
    /\ size = 0 /\ ret.op = "pass_move" /\ nbr_moves = 1

(* The move of colour c at coordinate p passes the occupancy and suicide   *)
(* checks, the history holds two snapshots or more, and the grid the move  *)
(* would produce is the snapshot before the last one.                      *)
RecreatesTwoBack(p, c) ==
    /\ p \in Pos(size) /\ board[p] = EMPTY
    /\ ~IsSuicide(board, p, c)
    /\ Len(states) >= 2
    /\ ResultGrid(board, p, c) = states[Len(states) - 1]

(* C24: no snapshot of the history equals the snapshot two positions       *)
(* before it; a move is rejected as ko exactly when it passes the          *)
(* occupancy and suicide checks, the history holds at least two snapshots  *)
(* and the grid it would produce equals the snapshot before the last one.  *)
C24_NoSnapshotEqualsTwoBack ==
    /\ \A i \in 3 .. Len(states) : states[i] # states[i - 2]
    /\ \A p \in AllCoords(size), c \in Colors :
          possible_move(size, board, states, p[1], p[2], c).why = "ko"
          <=> RecreatesTwoBack(p, c)

(* A move has just been refused as ko in a history of four snapshots or    *)
(* more, the last of which followed a capture.                             *)
C24_Witness ==
    /\ ret.op \in {"play_move", "take_move"} /\ ~ret.ok /\ ret.why = "ko"
    /\ Len(states) >= 4
    /\ \E p \in Pos(size) : RecreatesTwoBack(p, current_color)

(* C25: in every state reached from a new game by take_move and pass_move  *)
(* calls, every chain of stones on the grid has at least one liberty.      *)
C25_EveryChainHasALiberty ==
    \A p \in Pos(size) :
       board[p] # EMPTY => Liberties(board, Chain(board, p)) # {}

(* A capturing move has left a chain of two stones or more with a single   *)
(* liberty.                                                                *)
C25_Witness ==
    /\ AcceptedTake /\ ret.capture
    /\ \E p \in Pos(size) :
          /\ board[p] # EMPTY
          /\ Cardinality(Chain(board, p)) >= 2
          /\ Cardinality(Liberties(board, Chain(board, p))) = 1

(* Grid after differs from grid before only by a stone of colour c on the  *)
(* empty cell p and by emptied cells that held the other colour.           *)
OnlyPlacedAndCaptured(before, after, p, c) ==
    /\ before[p] = EMPTY /\ after[p] = c
    /\ \A q \in DOMAIN before \ {p} :
          \/ after[q] = before[q]
          \/ before[q] = Other(c) /\ after[q] = EMPTY
    /\ Stones(after, c) = Stones(before, c) + 1
    /\ \A q \in DOMAIN before : before[q] = c => after[q] = c

(* C26: an accepted move changes the grid only at the placed cell (empty   *)
(* to the mover's colour) and at captured opponent stones (to empty); the  *)
(* mover's stones increase by exactly 1 and none of them is removed; the   *)
(* grid appended to the history is the grid the legality simulation        *)
(* computed for the same move.                                             *)
C26_AcceptedMoveFrame ==
    [][(ret'.op \in {"play_move", "take_move"} /\ ret'.ok)
       => \E p \in Pos(size), c \in Colors :
             /\ ret'.op = "take_move" => c = current_color
             /\ OnlyPlacedAndCaptured(board, board', p, c)
             /\ states' = Append(states, board')
             /\ board' = SimulateMove(size, board, states, p[1], p[2], c).board]_vars

(* A move has been accepted that captured two stones or more next to       *)
(* stones of its own colour.                                               *)
C26_Witness ==
    /\ ret.op \in {"play_move", "take_move"} /\ ret.ok /\ ret.capture
    /\ Len(states) >= 2
    /\ LET before == states[Len(states) - 1]
       IN /\ Cardinality({q \in Pos(size) : before[q] # EMPTY /\ board[q] = EMPTY}) >= 2
          /\ \E q \in Pos(size), c \in Colors :
                before[q] = EMPTY /\ board[q] = c /\ Stones(before, c) >= 1

(* C27 as stated: for each legal root candidate, the search with depth D   *)
(* (2 for Leo, 4 for Magnus) searches D-1 further plies, so every leaf     *)
(* evaluation is taken exactly D plies after the position choose_move was  *)
(* called on.                                                              *)
C27_LeavesAtDepth ==
    (HasChosen /\ out.ai = "TrueAI")
    => \A p \in Candidates :
          RootLeaves(Game, out.color, out.depth, p) \subseteq {out.depth}

(* C27, amended: for each legal root candidate the search goes D further   *)
(* plies, starting with the opponent's reply, so every leaf evaluation is  *)
(* taken exactly D + 1 plies after the position choose_move was called on  *)
(* (3 for Leo, 5 for Magnus).                                              *)
C27_LeavesOnePlyDeeper ==
    (HasChosen /\ out.ai = "TrueAI")
    => \A p \in Candidates :
          RootLeaves(Game, out.color, out.depth, p) \subseteq {out.depth + 1}

(* Magnus's search took leaf evaluations below every candidate of a game   *)
(* with stones on the grid.                                                *)
C27_Witness ==
    /\ HasChosen /\ out.ai = "TrueAI" /\ out.depth = MagnusDepth
    /\ Len(states) >= 2 /\ Candidates # {}
    /\ \A p \in Candidates :
          RootLeaves(Game, out.color, out.depth, p) = {MagnusDepth + 1}

(* The empty cells of grid b. *)
Empties(b) == {p \in DOMAIN b : b[p] = EMPTY}

(* The cells that the lists of territories t count for Black and for White. *)
CountedFor(t) == BLACK :> UNION Range(t.black) @@ WHITE :> UNION Range(t.white)

(* On grid b with score sc and counted cells cnt, colour c is the only     *)
(* colour with stones and an empty cell is left: every empty cell is       *)
(* counted for c, whose score is size*size while the other's is 0.         *)
AllToOnlyColour(b, sc, cnt, c) ==
    (Stones(b, c) >= 1 /\ Stones(b, Other(c)) = 0 /\ Empties(b) # {})
    => /\ cnt[c] = Empties(b) /\ cnt[Other(c)] = {}
       /\ sc[c] = size * size /\ sc[Other(c)] = 0

OpponentJustPassed(c) ==
    IF c = current_color
    THEN turns # <<>> /\ turns[Len(turns)] = "pass"
    ELSE Len(turns) >= 2 /\ turns[Len(turns) - 1] = "pass"

(* C29: while the game is not over, Martin returns Pass only if the        *)
(* opponent's most recent turn was a pass or no empty cell is a legal move *)
(* for the active colour; if the opponent's last turn was a stone move (or *)
(* the game has just started) and a legal cell exists, it returns a        *)
(* coordinate or Resign.                                                   *)
C29_MartinPassesOnlyAfterPass ==
    (Returned /\ ~game_over)
    => /\ out.value = Pass
          => OpponentJustPassed(out.color) \/ Candidates = {}
       /\ (~OpponentJustPassed(out.color) /\ Candidates # {})
          => out.value.kind \in {"move", "resign"}

(* Martin, whose turn it is, returned Pass from its pass branch after the  *)
(* opponent passed, with a legal cell on the grid.                         *)
C29_Witness ==
    /\ Returned /\ ~game_over /\ out.via = "pass" /\ out.value = Pass
    /\ out.color = current_color /\ Candidates # {}
    /\ Len(states) >= 2

(* C30: the search returns Pass only when no legal candidate exists or the *)
(* heuristic pass rule applies (mover ahead and best evaluation not above  *)
(* the current differential); whenever at least one legal candidate exists *)
(* and the mover's current score differential is <= 0, it returns a        *)
(* coordinate.                                                             *)
C30_PassOnlyByRule ==
    (HasChosen /\ out.ai = "TrueAI")
    => LET current == score(size, board)[out.color]
                      - score(size, board)[Other(out.color)]
       IN /\ out.value = Pass
             => \/ Candidates = {}
                \/ /\ current > 0
                   /\ BestEvaluation(Game, Candidates, out.color, out.depth)
                      <= current
          /\ (Candidates # {} /\ current <= 0) => out.value.kind = "move"

(* The search, called for the colour to move which is not ahead, returned  *)
(* Pass on a 3x3 grid with legal candidates.                               *)
C30_Witness ==
    /\ HasChosen /\ out.ai = "TrueAI" /\ out.value = Pass
    /\ size = 3 /\ out.color = current_color /\ Candidates # {}
    /\ score(size, board)[out.color] <= score(size, board)[Other(out.color)]

(***************************************************************************)
(* The values of look_ahead.                                               *)
(***************************************************************************)

(* The evaluation look_ahead returns for the root candidate p of the last  *)
(* search (line 286).                                                      *)
Evaluation(p) == look_ahead(After(Game, p), out.color, out.depth, FALSE, -Inf, Inf)

(* C31: every evaluation look_ahead returns for a position on a size x     *)
(* size grid is an integer between -size*size and size*size, the score     *)
(* differential of a position of the search, also when a player inside the *)
(* search tree has no legal move.                                          *)
C31_EvaluationsFinite ==
    (HasChosen /\ out.ai = "TrueAI")
    => \A p \in Candidates : Evaluation(p) \in -(size * size) .. size * size

(* The search evaluated a candidate after which a player of the tree has   *)
(* no legal move, and gave it an infinite value.                           *)
C31_Witness ==
    /\ HasChosen /\ out.ai = "TrueAI"
    /\ \E p \in Candidates :
          /\ Evaluation(p) \in {-Inf, Inf}
          /\ \/ Children(After(Game, p)) = {}
             \/ \E k \in Children(After(Game, p)) : Children(k) = {}

(* The move of colour c on the empty cell p passes the suicide check and   *)
(* would produce a grid that the history holds before its last two         *)
(* snapshots.                                                              *)
RecreatesOlder(p, c) ==
    /\ board[p] = EMPTY
    /\ ~IsSuicide(board, p, c)
    /\ \E i \in 1 .. Len(states) - 2 : states[i] = ResultGrid(board, p, c)

(* The grid is the snapshot at i, the grid before it the snapshot before   *)
(* i, and the same colour is to move as after the snapshot at i was made   *)
(* in a game without passes.                                               *)
RecursAt(i) ==
    /\ states[i] = board
    /\ states[i - 1] = states[Len(states) - 1]
    /\ (Len(states) - i) % 2 = 0

(* C32: only the snapshot two back is compared: a move that would recreate *)
(* an older snapshot and not the one two back is accepted, so there is a   *)
(* sequence of accepted take_move calls from a new game after which the    *)
(* grid equals a snapshot four or more entries back, whole-board positions *)
(* recur and a game played without passes need not terminate.              *)
C32_OlderSnapshotsNotCompared ==
    \A p \in Pos(size) :
       (RecreatesOlder(p, current_color) /\ ~RecreatesTwoBack(p, current_color))
       => LET r == take_move(Game, p[1], p[2])
          IN /\ r.ok
             /\ r.game.board = ResultGrid(board, p, current_color)
             /\ r.game.states = Append(states, r.game.board)

(* After accepted stone moves only, the grid, the grid before it and the   *)
(* colour to move are those of a point of the game four or more snapshots  *)
(* back: the moves played since can be played again without end.           *)
C32_Witness ==
    /\ AcceptedTake /\ nbr_moves = Len(states) - 1
    /\ \E i \in 2 .. Len(states) - 4 : RecursAt(i)

(* The history holds one snapshot more than the game counts moves: no pass *)
(* has been counted.                                                       *)
NoPassCounted == Len(states) - 1 = nbr_moves

(* C33: from a new game, the history length is 1 plus the number of        *)
(* accepted stone moves and the move count is the number of accepted stone *)
(* moves plus the number of passes: both start at 1 and 0, an accepted     *)
(* stone move adds one to each, a pass adds one to the move count only,    *)
(* and a rejected move or a legality query changes neither; hence history  *)
(* length - 1 <= move count, with equality exactly when no pass was made.  *)
C33_HistoryAndMoveCount ==
    /\ Len(states) = 1 /\ nbr_moves = 0
    /\ [][/\ (ret'.op = "take_move" /\ ret'.ok)
             => /\ Len(states') = Len(states) + 1
                /\ nbr_moves' = nbr_moves + 1
          /\ ret'.op = "pass_move"
             => /\ Len(states') = Len(states)
                /\ nbr_moves' = nbr_moves + 1
          /\ ((ret'.op = "take_move" /\ ~ret'.ok) \/ ret'.op = "possible_move")
             => /\ Len(states') = Len(states)
                /\ nbr_moves' = nbr_moves
          /\ NoPassCounted' <=> (NoPassCounted /\ ret'.op # "pass_move")]_vars
    /\ [](Len(states) - 1 <= nbr_moves)

(* A stone move has been accepted after a pass and another stone move: the *)
(* move count is above the history length less one.                        *)
C33_Witness ==
    /\ AcceptedTake /\ Len(states) >= 3
    /\ nbr_moves > Len(states) - 1
    /\ \E i \in 1 .. Len(turns) : turns[i] = "pass"

(***************************************************************************)
(* compute_ai_move: the strategies called on a serialized game.            *)
(***************************************************************************)

(* The default of the parameter resign_threshold of compute_ai_move. *)
DefaultResignThreshold == 50

(* The values of resign_threshold callers pass. *)
Thresholds == {0, DefaultResignThreshold}

(* The values of ai_kind callers pass: the three strategies and a name of  *)
(* none of them.                                                           *)
Kinds == {"Martin", "Leo", "Magnus", "Other"}

(* The values a strategy may return, given the pairs of a value and the    *)
(* game left behind.                                                       *)
Values(outcomes) == {o.value : o \in outcomes}

(* The branch of compute_ai_move for Martin (lines 320-349), with          *)
(* resign_probability and pass_probability strictly between 0 and 1:       *)
(* rd.random() may fall under resign_probability; if it does not, the      *)
(* call resigns when the opponent leads by more than resign_threshold;     *)
(* else it may pass after the opponent's pass, or runs the trial loop.     *)
compute_martin(game, color, resign_threshold) ==
    {Resign}
    \cup (IF Differential(score(game.size, game.board), opponent_color(color))
             > resign_threshold
          THEN {}
          ELSE (IF (game.black_passed /\ color = WHITE)
                   \/ (game.white_passed /\ color = BLACK)
                THEN {Pass} ELSE {})
               \cup Values(MartinLoop(game, Range(empty_positions(game.size,
                                                                  game.board)))))

(* Lines 317 and 351-357 of compute_ai_move on the deserialized game. *)
compute_on(game, ai_kind, color, resign_threshold) ==
    IF ai_kind = "Martin" THEN compute_martin(game, color, resign_threshold)
    ELSE IF ai_kind = "Leo" THEN Values(true_ai_choose_move(game, color, 2))
    ELSE IF ai_kind = "Magnus" THEN Values(true_ai_choose_move(game, color, 4))
    ELSE Values(true_ai_choose_move(game, color, 2))

(* compute_ai_move: the set of values it may return. *)
compute_ai_move(game_state, ai_kind, color, resign_threshold) ==
    compute_on(game_from_dict(game_state), ai_kind, color, resign_threshold)

(* compute_ai_move has returned value v; the live game is not its argument. *)
Computed(ai_kind, color, resign_threshold, v) ==
    /\ out' = [kind |-> "compute_ai_move", ai |-> ai_kind, color |-> color,
               threshold |-> resign_threshold, value |-> v]
    /\ UNCHANGED <<size, board, states, current_color, black_passed,
                   white_passed, nbr_moves, singleplayer, ret, turns, scope, frame>>

(* A call of compute_ai_move on the serialized live game, made after a     *)
(* call on the game.                                                       *)
ComputeAIMove(ai_kind, color, resign_threshold) ==
    /\ out = NoValue
    /\ \E v \in compute_ai_move(game_to_dict(Game), ai_kind, color, resign_threshold) :
          Computed(ai_kind, color, resign_threshold, v)

(* The runs of compute_ai_move: the kinds asked for on each board. *)
ConfigsHeadless ==
    { [size |-> 2, tried |-> Pos(2), turns |-> MaxMoves, hist |-> MaxMoves + 1,
       kinds |-> Kinds],
      [size |-> 3, tried |-> Pos(3), turns |-> MaxMoves - 2, hist |-> MaxMoves,
       kinds |-> {"Martin", "Leo"}] }

InitHeadless == InitWith(ConfigsHeadless)

(* Moves and passes on a game and compute_ai_move called on its dict. *)
NextHeadless ==
    \/ \E c \in scope.tried : TakeMove(c[1], c[2])
    \/ PassMove
    \/ \E k \in scope.kinds, color \in Colors, t \in Thresholds :
          ComputeAIMove(k, color, t)

SpecHeadless == InitHeadless /\ [][NextHeadless]_vars

(* The values choose_move of the strategy class named kind may return on   *)
(* the live game.                                                          *)
ClassResults(kind, color) ==
    IF kind = "Martin" THEN Values(martin_choose_move(Game, color))
    ELSE IF kind = "Leo" THEN Values(true_ai_choose_move(Game, color, LeoDepth))
    ELSE Values(true_ai_choose_move(Game, color, MagnusDepth))

(* C34: for the same serialized game, colour and probabilities, and for    *)
(* every resign_threshold, compute_ai_move has the same set of possible    *)
(* results as choose_move of the strategy class it names, for each of      *)
(* Martin, Leo and Magnus.                                                 *)
C34_HeadlessSameResults ==
    (out.kind = "compute_ai_move" /\ out.ai \in {"Martin", "Leo", "Magnus"})
    => compute_ai_move(game_to_dict(Game), out.ai, out.color, out.threshold)
       = ClassResults(out.ai, out.color)

(* compute_ai_move was called for Martin with threshold 0 on a game in     *)
(* which Martin's opponent leads and Martin has a legal move.              *)
C34_Witness ==
    /\ out.kind = "compute_ai_move" /\ out.ai = "Martin" /\ out.threshold = 0
    /\ out.value = Resign
    /\ score(size, board)[Other(out.color)] > score(size, board)[out.color]
    /\ \E p \in Pos(size) : Move(p) \in ClassResults("Martin", out.color)

(* C36: the assertion of _chain_and_liberties (the queried cell is not     *)
(* empty) fails in no call made by possible_move or play_move during any   *)
(* sequence of take_move and pass_move calls on a game, also when an       *)
(* earlier capture of the same move has emptied a neighbouring cell.       *)
C36_AssertionNeverFails ==
    /\ ~ret.raised
    /\ \A p \in AllCoords(size), c \in Colors :
          /\ ~possible_move(size, board, states, p[1], p[2], c).raised
          /\ ~play_move(size, board, states, p[1], p[2], c).raised
    /\ \A p \in AllCoords(size) : ~take_move(Game, p[1], p[2]).raised

(* The stone just played at p captured a chain that held two neighbours of *)
(* p: the second was empty when the capture loop came to it.               *)
C36_Witness ==
    /\ AcceptedTake /\ ret.capture
    /\ \E p \in Pos(size) :
          LET before == states[Len(states) - 1]
              taken == {q \in Around(before, p) :
                           before[q] = current_color /\ board[q] = EMPTY}
          IN /\ before[p] = EMPTY /\ board[p] # EMPTY
             /\ \E q1, q2 \in taken : q1 # q2 /\ q2 \in Chain(before, q1)

(***************************************************************************)
(* SingleplayerGameFrame of src/gui/frames/game_frame.py: the human plays  *)
(* White by clicks and the Pass button, the strategy plays Black from      *)
(* timer callbacks.  Every handler runs on the one thread of the event     *)
(* loop: frame.pc is "idle" between handlers, "ai_move" when a handler has *)
(* reached its call of _ai_move and "chosen" when choose_move has returned *)
(* inside it.                                                              *)
(***************************************************************************)

(* GoGame.game_over on game g. *)
Over(g) == g.black_passed /\ g.white_passed

(* The test of _on_board_click and _on_pass (lines 816, 852). *)
human_turn(color) == color = WHITE

(* Mutant of ai_turn: _ai_move does not test the active colour. *)
ai_turn_any(color) == TRUE

(* The test of _ai_move (line 874). *)
ai_turn(color) == color = BLACK

(* _wait_and_play_ai (lines 859-867): a timer of 100 ms is armed while an  *)
(* animation runs, else _ai_move is called.                                *)
wait_and_play_ai(f) ==
    IF f.animating THEN [f EXCEPT !.waits = @ + 1] ELSE [f EXCEPT !.pc = "ai_move"]

(* bowl.pop_stone_item() and _animate_stone (lines 448-494, 547-556,       *)
(* 886-896) for the bowl of colour c: with a stone left in the bowl an     *)
(* animation starts, else the stone is drawn at once.                      *)
PopStone(f, c) ==
    IF f.bowl[c] > 0
    THEN [f EXCEPT !.bowl[c] = @ - 1, !.animating = TRUE, !.running = @ + 1]
    ELSE f

(* _show_game_over_dialog (lines 683-724): the dialog takes the input and  *)
(* the click binding and the Pass button are disabled after it.            *)
show_game_over_dialog(f) == [f EXCEPT !.over = TRUE]

(* The frame after a stone of the mover who (a record kept beside the      *)
(* program) was accepted and game g left: lines 540-560 and 879-904.       *)
StonePlayed(f, g, who) ==
    LET drawn == [PopStone(f, opponent(g.current_color)) EXCEPT !.by = who]
    IN IF Over(g) THEN show_game_over_dialog(drawn) ELSE drawn

(* GameFrame._on_pass (lines 574-587) by the mover who, leaving game g. *)
PassPlayed(f, g, who) ==
    LET passed == [f EXCEPT !.by = who]
    IN IF Over(g) THEN show_game_over_dialog(passed) ELSE passed

(* The game fields, ret and turns after take_move returned r; the run is   *)
(* followed while the history and the move count stay within the bounds.   *)
FrameTakeMove(r) ==
    /\ Len(r.game.states) <= scope.hist
    /\ r.game.nbr_moves <= scope.turns
    /\ Becomes(r.game)
    /\ ret' = Ret("take_move", r.ok, r.capture, r.why, r.raised)
    /\ turns' = IF r.ok THEN Last3(Append(turns, "stone")) ELSE turns

(* The game fields, ret and turns after pass_move. *)
FramePassMove ==
    /\ nbr_moves < scope.turns
    /\ Becomes(pass_move(Game))
    /\ ret' = Ret("pass_move", TRUE, FALSE, "none", FALSE)
    /\ turns' = Last3(Append(turns, "pass"))

(* The handler leaves the game as it is. *)
GameUntouched ==
    UNCHANGED <<size, board, states, current_color, black_passed, white_passed,
                nbr_moves, singleplayer, ret, turns>>

(* The event loop takes the next event: no handler is running. *)
Dispatch == frame.pc = "idle"

(* Lines 855-857 after GameFrame._on_board_click returned r. *)
ClickDone(r) ==
    /\ FrameTakeMove(r)
    /\ frame' = LET f == IF r.ok THEN StonePlayed(frame, r.game, "human") ELSE frame
                IN IF Over(r.game) THEN f ELSE wait_and_play_ai(f)

(* SingleplayerGameFrame._on_board_click (lines 844-857) with              *)
(* GameFrame._on_board_click (lines 515-572): a click at <<x, y>>.         *)
OnBoardClick(x, y) ==
    /\ Dispatch /\ ~frame.over
    /\ out' = NoValue
    /\ UNCHANGED scope
    /\ IF ~human_turn(current_color)
       THEN GameUntouched /\ frame' = frame
       ELSE IF frame.animating \/ ~OnBoard(size, x, y)
       THEN /\ GameUntouched
            /\ frame' = IF game_over THEN frame ELSE wait_and_play_ai(frame)
       ELSE ClickDone(take_move(Game, x, y))

(* SingleplayerGameFrame._on_pass (lines 808-820): the Pass button.  When  *)
(* the pass ends the game the handler waits in the dialog (resume).        *)
OnPass ==
    /\ Dispatch /\ ~frame.over
    /\ out' = NoValue
    /\ UNCHANGED scope
    /\ IF ~human_turn(current_color)
       THEN GameUntouched /\ frame' = frame
       ELSE /\ FramePassMove
            /\ frame' = LET f == PassPlayed(frame, pass_move(Game), "human")
                        IN IF f.over THEN [f EXCEPT !.resume = TRUE]
                           ELSE wait_and_play_ai(f)

(* The dialog opened by the human's pass is closed: lines 818-820. *)
DialogClosed ==
    /\ Dispatch /\ frame.resume
    /\ frame' = LET f == [frame EXCEPT !.resume = FALSE]
                IN IF game_over THEN f ELSE wait_and_play_ai(f)
    /\ GameUntouched
    /\ UNCHANGED <<scope, out>>

(* The timer armed by the constructor fires (line 759). *)
FirstTimer ==
    /\ Dispatch /\ frame.first
    /\ frame' = [frame EXCEPT !.first = FALSE, !.pc = "ai_move"]
    /\ GameUntouched
    /\ UNCHANGED <<scope, out>>

(* A 100 ms timer armed by _wait_and_play_ai fires (lines 864-867). *)
PollTimer ==
    /\ Dispatch /\ frame.waits > 0
    /\ frame' = wait_and_play_ai([frame EXCEPT !.waits = @ - 1])
    /\ GameUntouched
    /\ UNCHANGED <<scope, out>>

(* The last step of an animation (lines 423, 484). *)
AnimationDone ==
    /\ Dispatch /\ frame.running > 0
    /\ frame' = [frame EXCEPT !.running = @ - 1, !.animating = FALSE]
    /\ GameUntouched
    /\ UNCHANGED <<scope, out>>

(* self.ai.choose_move() of the strategy the frame holds (lines 749-757):  *)
(* the pairs of a value and the game left behind.                          *)
AiOutcomes(ai) ==
    IF ai = "Martin" THEN martin_choose_move(Game, BLACK)
    ELSE true_ai_choose_move(Game, BLACK, LeoDepth)

(* Lines 874-875 of _ai_move: the colour test and the call of choose_move. *)
AiChoose ==
    /\ frame.pc = "ai_move"
    /\ UNCHANGED <<ret, turns, scope>>
    /\ IF ~ai_turn(current_color)
       THEN /\ frame' = [frame EXCEPT !.pc = "idle"]
            /\ out' = NoValue
            /\ UNCHANGED <<size, board, states, current_color, black_passed,
                           white_passed, nbr_moves, singleplayer>>
       ELSE \E o \in AiOutcomes(scope.ai) :
               /\ Becomes(o.g)
               /\ out' = [kind |-> "choose_move", ai |-> scope.ai,
                          color |-> BLACK,
                          depth |-> IF scope.ai = "Martin" THEN 0 ELSE LeoDepth,
                          value |-> o.value]
               /\ frame' = [frame EXCEPT !.pc = "chosen"]

(* Lines 877-915 of _ai_move: the value choose_move returned is played. *)
AiApply ==
    /\ frame.pc = "chosen"
    /\ out' = NoValue
    /\ UNCHANGED scope
    /\ LET f == [frame EXCEPT !.pc = "idle"]
       IN IF out.value.kind = "move"
          THEN LET r == take_move(Game, out.value.at[1], out.value.at[2])
               IN /\ FrameTakeMove(r)
                  /\ frame' = IF r.ok THEN StonePlayed(f, r.game, "ai") ELSE f
          ELSE IF out.value.kind = "pass"
          THEN /\ FramePassMove
               /\ frame' = PassPlayed(f, pass_move(Game), "ai")
          ELSE /\ GameUntouched
               /\ frame' = show_game_over_dialog(f)

(* The frame after SingleplayerGameFrame.__init__: nothing animates, both  *)
(* bowls hold size * size stones, the first timer is armed.                *)
NewFrame(n) ==
    [pc |-> "idle", animating |-> FALSE, running |-> 0, waits |-> 0,
     first |-> TRUE, over |-> FALSE, resume |-> FALSE,
     bowl |-> [c \in Colors |-> n * n], by |-> "none"]

(* The runs of the frame: the strategy it holds and the number of armed    *)
(* timers followed.                                                        *)
ConfigsFrame ==
    { [size |-> 2, tried |-> Pos(2) \cup {<<-1, 0>>}, turns |-> MaxMoves + 3,
       hist |-> MaxMoves + 4, ai |-> a, waits |-> MaxMoves - 1] :
      a \in {"Martin", "Leo"} }

(* The games a frame is built on: a new game, or a game to resume (the    *)
(* application's current game, lines 43-69) in which White is to move      *)
(* after a black stone, or after Black passed; with the kinds of the turns *)
(* played in it.                                                           *)
FrameGames(n) ==
    { [g |-> NewGame(n), turns |-> <<>>],
      [g |-> Replay(NewGame(n), << <<0, 0>> >>), turns |-> <<"stone">>],
      [g |-> pass_move(Replay(NewGame(n), << <<0, 0>>, <<1, 1>> >>)),
       turns |-> <<"stone", "stone", "pass">>] }

(* The frame is built on a new game or on a game to resume. *)
InitFrame ==
    /\ scope \in ConfigsFrame
    /\ \E s \in FrameGames(scope.size) : Starts(s.g) /\ turns = s.turns
    /\ frame = NewFrame(scope.size)
    /\ ret = [op |-> "init", ok |-> FALSE, capture |-> FALSE, why |-> "none",
              raised |-> FALSE]
    /\ out = NoValue

(* The events of the frame; a click or a press that would arm more timers  *)
(* than the run follows is left out.                                       *)
NextFrame ==
    \/ \E c \in scope.tried : OnBoardClick(c[1], c[2]) /\ frame'.waits <= scope.waits
    \/ OnPass /\ frame'.waits <= scope.waits
    \/ DialogClosed /\ frame'.waits <= scope.waits
    \/ FirstTimer
    \/ PollTimer
    \/ AnimationDone
    \/ AiChoose
    \/ AiApply

SpecFrame == InitFrame /\ [][NextFrame]_vars

====
